---------------------------- MODULE Spec2Model ----------------------------
(* A model of libcommuni's IrcTextFormat (src/src/util/irctextformat.cpp)   *)
(* and IrcUserModel (src/src/model/ircusermodel.cpp).                       *)
(* Strings are sequences of UTF-16 code units (integers); positions are    *)
(* 0-based as in the C++ code, so the character at position p of s is      *)
(* s[p + 1].                                                               *)
EXTENDS Integers, Sequences, FiniteSets, TLC

VARIABLES
    urlPattern,     \* IrcTextFormatPrivate::urlPattern: "empty", "default",
                    \* "invalid" for a pattern that does not compile, or
                    \* "star" for the pattern "a*"
    spanFormat,     \* IrcTextFormatPrivate::spanFormat: "SpanStyle" or "SpanClass"
    palette,        \* IrcTextFormatPrivate::palette: color index -> color name
    pc,             \* where the current call stands
    op,             \* the function called: "none", "toHtml" or "toPlainText"
    text,           \* the argument of the current call
    processed,      \* toHtml / toPlainText: QString processed
    pos,            \* toHtml / toPlainText: int pos
    len,            \* toHtml / toPlainText: int len
    fg,             \* toHtml: int fg
    bg,             \* toHtml: int bg
    depth,          \* toHtml: int depth
    state,          \* toHtml: int state (bit set of attributes)
    potentialUrl,   \* toHtml: bool potentialUrl
    linkProcessed,  \* parseLinks: QString processed
    linkPos,        \* parseLinks: int pos
    result,         \* the value the last call returned
    error,          \* what the last call reported to its caller besides result
    lastTok,        \* history: what the last loop iteration met
    round,          \* history: 1 for a call on an input, 2 for a call on a result
    first,          \* history: the result of the call of round 1
    input,          \* history: the text the run started from
    emitted,        \* history: how many elements the call has generated
    linkRuns,       \* history: how often the call has called parseLinks
    call,           \* history: which call on the object this is, from 1
    firstOp,        \* history: the function the call number 1 called
    firstConfig,    \* history: the configuration the call number 1 ran with
    userList,       \* IrcUserModelPrivate::userList
    sortOrder,      \* IrcUserModelPrivate::sortOrder
    dynamicSort,    \* IrcUserModelPrivate::dynamicSort
    prefixes,       \* lessThan: the prefix list of the network of the users
    one,            \* lessThan: the first argument of the last call
    another,        \* lessThan: the second argument of the last call
    lessResult,     \* lessThan: what the last call returned
    userOp,         \* history: the last operation on the user model
    sortUsed,       \* history: sort() was called or dynamicSort was set
    delivered,      \* history: the users in the order they were delivered,
                    \* kept while neither sort() nor dynamic sorting was used
    channel,        \* IrcUserModelPrivate::channel
    userModels,     \* IrcChannelPrivate::userModels, for every channel
    life,           \* whether the user model exists: "alive" or "destroyed"
    signals         \* the signals the last operation on the user model emitted

config == <<urlPattern, spanFormat, palette>>
locals == <<processed, pos, len, fg, bg, depth, state, potentialUrl>>
linkLocals == <<linkProcessed, linkPos>>
history == <<lastTok, round, first, input, emitted, linkRuns, call, firstOp,
             firstConfig>>
formatVars == <<config, pc, op, text, locals, linkLocals, result, error, history>>
registry == <<channel, userModels, life>>
userVars == <<userList, sortOrder, dynamicSort, prefixes, one, another, lessResult,
              userOp, sortUsed, delivered, registry, signals>>
vars == <<formatVars, userVars>>

-----------------------------------------------------------------------------
(* Bounds of the model. *)

\* longest input, counted in chunks of ControlChunks
MaxLen == 3
\* longest input, counted in chunks of LinkChunks
MaxWords == 2
\* longest input of a run of several calls, counted in chunks of CallChunks
MaxCallLen == 2
\* how many users of UserPool a channel delivers to the user model
MaxUsers == 3
\* the length of the text from which on the model follows parseLinks no
\* further; only a loop that never ends gets there
MaxText == 150

-----------------------------------------------------------------------------
(* Characters. *)

\* '\x02'
BoldCode == 2
\* '\x03'
ColorCode == 3
\* '\x0f'
ResetCode == 15
\* '\x13'
LineThroughCode == 19
\* '\x15'
UnderlineCode == 21
\* '\x16'
InverseCode == 22
\* '\x1d'
ItalicCode == 29
\* '\x1f'
UnderlineCode2 == 31

ControlCodes ==
    {BoldCode, ColorCode, ResetCode, LineThroughCode, UnderlineCode,
     InverseCode, ItalicCode, UnderlineCode2}

\* QChar::isDigit on the characters of the model: '0'..'9'
IsDigit(c) == c \in 48..57

\* QChar::isSpace on the characters of the model: \t \n \v \f \r and ' '
IsSpace(c) == c \in (9..13) \cup {32}

-----------------------------------------------------------------------------
(* QString operations, on 0-based positions. *)

\* QString::at
At(s, p) == s[p + 1]

\* QString::mid(pos, n)
Mid(s, p, n) == SubSeq(s, p + 1, p + n)

\* QString::replace(pos, n, after)
Replace(s, p, n, after) == SubSeq(s, 1, p) \o after \o SubSeq(s, p + n + 1, Len(s))

\* QString::remove(pos, n)
Remove(s, p, n) == SubSeq(s, 1, p) \o SubSeq(s, p + n + 1, Len(s))

\* QString::replace(QChar before, QString after): every occurrence
RECURSIVE ReplaceChar(_, _, _)
ReplaceChar(s, before, after) ==
    IF s = <<>> THEN <<>>
    ELSE (IF Head(s) = before THEN after ELSE <<Head(s)>>)
         \o ReplaceChar(Tail(s), before, after)

\* QString::toInt on a string of decimal digits
RECURSIVE ToInt(_)
ToInt(s) ==
    IF s = <<>> THEN 0
    ELSE 10 * ToInt(SubSeq(s, 1, Len(s) - 1)) + (s[Len(s)] - 48)

\* QString::repeated(n)
RECURSIVE Repeated(_, _)
Repeated(s, n) == IF n <= 0 THEN <<>> ELSE s \o Repeated(s, n - 1)

-----------------------------------------------------------------------------
(* parseColors: the regular expression (\d{1,2})(?:,(\d{1,2}))? matched at  *)
(* position p of message.                                                  *)

\* the number of digits, at most two, that start at position p
Digits(message, p) ==
    IF p < Len(message) /\ IsDigit(At(message, p))
    THEN IF p + 1 < Len(message) /\ IsDigit(At(message, p + 1)) THEN 2 ELSE 1
    ELSE 0

\* parseColors with the pattern (\d{1,2})(?:,(\d{0,2}))?: a comma after the
\* foreground is taken even when no digit follows it
parseColors_CommaAlone(message, p) ==
    LET d1 == Digits(message, p)
        comma == d1 > 0 /\ p + d1 < Len(message) /\ At(message, p + d1) = 44
        d2 == IF comma THEN Digits(message, p + d1 + 1) ELSE 0
        n == IF d1 = 0 THEN 0 ELSE IF comma THEN d1 + 1 + d2 ELSE d1
    IN  [ok |-> n > 0,
         len |-> n,
         fg |-> IF d1 > 0 THEN ToInt(Mid(message, p, d1)) ELSE -1,
         bg |-> IF d2 > 0 THEN ToInt(Mid(message, p + d1 + 1, d2)) ELSE -1]

parseColors(message, p) ==
    LET d1 == Digits(message, p)
        comma == d1 > 0 /\ p + d1 < Len(message) /\ At(message, p + d1) = 44
        d2 == IF comma THEN Digits(message, p + d1 + 1) ELSE 0
        n == IF d1 = 0 THEN 0 ELSE IF d2 > 0 THEN d1 + 1 + d2 ELSE d1
    IN  [ok |-> n > 0,
         len |-> n,
         fg |-> IF d1 > 0 THEN ToInt(Mid(message, p, d1)) ELSE -1,
         bg |-> IF d2 > 0 THEN ToInt(Mid(message, p + d1 + 1, d2)) ELSE -1]

-----------------------------------------------------------------------------
(* toPlainText. *)

\* PlainStep with the cursor moved on after a removal, so that the byte that
\* takes the place of the removed one is never looked at
PlainStep_SkipAfterRemoval(st) ==
    LET c == At(st.processed, st.pos) IN
    IF c \in ControlCodes \ {ColorCode}
    THEN [st EXCEPT !.processed = Remove(st.processed, st.pos, 1),
                    !.pos = st.pos + 1]
    ELSE IF c = ColorCode
    THEN LET pc1 == parseColors(st.processed, st.pos + 1) IN
         [st EXCEPT !.processed = Remove(st.processed, st.pos, pc1.len + 1),
                    !.len = pc1.len]
    ELSE [st EXCEPT !.pos = st.pos + 1]

\* PlainStep without the case '\x1f'
PlainStep_NoUnderline2(st) ==
    LET c == At(st.processed, st.pos) IN
    IF c \in ControlCodes \ {ColorCode, UnderlineCode2}
    THEN [st EXCEPT !.processed = Remove(st.processed, st.pos, 1)]
    ELSE IF c = ColorCode
    THEN LET pc1 == parseColors(st.processed, st.pos + 1) IN
         [st EXCEPT !.processed = Remove(st.processed, st.pos, pc1.len + 1),
                    !.len = pc1.len]
    ELSE [st EXCEPT !.pos = st.pos + 1]

\* one iteration of the loop of toPlainText, on [processed, pos, len]
PlainStep(st) ==
    LET c == At(st.processed, st.pos) IN
    IF c \in ControlCodes \ {ColorCode}
    THEN [st EXCEPT !.processed = Remove(st.processed, st.pos, 1)]
    ELSE IF c = ColorCode
    THEN LET pc1 == parseColors(st.processed, st.pos + 1) IN
         IF pc1.ok
         THEN [st EXCEPT !.processed = Remove(st.processed, st.pos, pc1.len + 1),
                         !.len = pc1.len]
         ELSE [st EXCEPT !.processed = Remove(st.processed, st.pos, 1),
                         !.len = pc1.len]
    ELSE [st EXCEPT !.pos = st.pos + 1]

RECURSIVE PlainLoop(_)
PlainLoop(st) ==
    IF st.pos < Len(st.processed) THEN PlainLoop(PlainStep(st)) ELSE st.processed

toPlainText(t) == PlainLoop([processed |-> t, pos |-> 0, len |-> 0])

-----------------------------------------------------------------------------
(* The markup toHtml generates. *)

\* "</span>"
CloseSpan == <<60, 47, 115, 112, 97, 110, 62>>
\* "&lt;"
LtEntity == <<38, 108, 116, 59>>
\* "<span style='font-weight: bold'>"
BoldStyle ==
    <<60, 115, 112, 97, 110, 32, 115, 116, 121, 108, 101, 61, 39, 102, 111, 110, 116, 45, 119, 101, 105, 103, 104, 116, 58, 32, 98, 111, 108, 100, 39, 62>>
\* "<span class='bold'>"
BoldClass == <<60, 115, 112, 97, 110, 32, 99, 108, 97, 115, 115, 61, 39, 98, 111, 108, 100, 39, 62>>
\* "<span style='font-style: italic'>"
ItalicStyle ==
    <<60, 115, 112, 97, 110, 32, 115, 116, 121, 108, 101, 61, 39, 102, 111, 110, 116, 45, 115, 116, 121, 108, 101, 58, 32, 105, 116, 97, 108, 105, 99, 39, 62>>
\* "<span class='italic'>"
ItalicClass == <<60, 115, 112, 97, 110, 32, 99, 108, 97, 115, 115, 61, 39, 105, 116, 97, 108, 105, 99, 39, 62>>
\* "<span style='text-decoration: line-through'>"
LineThroughStyle ==
    <<60, 115, 112, 97, 110, 32, 115, 116, 121, 108, 101, 61, 39, 116, 101, 120, 116, 45, 100, 101, 99, 111, 114, 97, 116, 105, 111, 110, 58, 32, 108, 105, 110, 101, 45, 116, 104, 114, 111, 117, 103, 104, 39, 62>>
\* "<span class='line-through'>"
LineThroughClass ==
    <<60, 115, 112, 97, 110, 32, 99, 108, 97, 115, 115, 61, 39, 108, 105, 110, 101, 45, 116, 104, 114, 111, 117, 103, 104, 39, 62>>
\* "<span style='text-decoration: underline'>"
UnderlineStyle ==
    <<60, 115, 112, 97, 110, 32, 115, 116, 121, 108, 101, 61, 39, 116, 101, 120, 116, 45, 100, 101, 99, 111, 114, 97, 116, 105, 111, 110, 58, 32, 117, 110, 100, 101, 114, 108, 105, 110, 101, 39, 62>>
\* "<span class='underline'>"
UnderlineClass ==
    <<60, 115, 112, 97, 110, 32, 99, 108, 97, 115, 115, 61, 39, 117, 110, 100, 101, 114, 108, 105, 110, 101, 39, 62>>
\* "<span style='text-decoration: inverse'>"
InverseStyle ==
    <<60, 115, 112, 97, 110, 32, 115, 116, 121, 108, 101, 61, 39, 116, 101, 120, 116, 45, 100, 101, 99, 111, 114, 97, 116, 105, 111, 110, 58, 32, 105, 110, 118, 101, 114, 115, 101, 39, 62>>
\* "<span class='inverse'>"
InverseClass ==
    <<60, 115, 112, 97, 110, 32, 99, 108, 97, 115, 115, 61, 39, 105, 110, 118, 101, 114, 115, 101, 39, 62>>
\* "<span style='"
SpanStyleOpen == <<60, 115, 112, 97, 110, 32, 115, 116, 121, 108, 101, 61, 39>>
\* "<span class='"
SpanClassOpen == <<60, 115, 112, 97, 110, 32, 99, 108, 97, 115, 115, 61, 39>>
\* "'>"
TagEnd == <<39, 62>>
\* "color: "
ColorPrefix == <<99, 111, 108, 111, 114, 58, 32>>
\* "background-color: "
BackgroundPrefix ==
    <<98, 97, 99, 107, 103, 114, 111, 117, 110, 100, 45, 99, 111, 108, 111, 114, 58, 32>>
\* "; "
StyleSep == <<59, 32>>
\* " "
ClassSep == <<32>>
\* "-background"
BackgroundSuffix == <<45, 98, 97, 99, 107, 103, 114, 111, 117, 110, 100>>
\* "black"
Black == <<98, 108, 97, 99, 107>>
\* "transparent"
Transparent == <<116, 114, 97, 110, 115, 112, 97, 114, 101, 110, 116>>

\* the enum of toHtml
None == 0
Bold == 1
Italic == 4
LineThrough == 8
Underline == 16
Inverse == 32

\* state & bit, for a single bit
HasBit(s, bit) == (s \div bit) % 2 = 1

\* state ^ bit, for a single bit
XorBit(s, bit) == IF HasBit(s, bit) THEN s - bit ELSE s + bit

\* IrcPalette(): the color names a palette starts with, indices 0..15
DefaultPalette ==
    [i \in 0..15 |->
        CASE i = 0 -> <<119, 104, 105, 116, 101>>
          [] i = 1 -> <<98, 108, 97, 99, 107>>
          [] i = 2 -> <<110, 97, 118, 121>>
          [] i = 3 -> <<103, 114, 101, 101, 110>>
          [] i = 4 -> <<114, 101, 100>>
          [] i = 5 -> <<109, 97, 114, 111, 111, 110>>
          [] i = 6 -> <<112, 117, 114, 112, 108, 101>>
          [] i = 7 -> <<111, 108, 105, 118, 101>>
          [] i = 8 -> <<121, 101, 108, 108, 111, 119>>
          [] i = 9 -> <<108, 105, 109, 101>>
          [] i = 10 -> <<116, 101, 97, 108>>
          [] i = 11 -> <<97, 113, 117, 97>>
          [] i = 12 -> <<114, 111, 121, 97, 108, 98, 108, 117, 101>>
          [] i = 13 -> <<102, 117, 99, 104, 115, 105, 97>>
          [] i = 14 -> <<103, 114, 97, 121>>
          [] i = 15 -> <<108, 105, 103, 104, 116, 103, 114, 97, 121>>]

\* IrcPalette::colorName(index, defaultName)
colorName(pal, index, defaultName) ==
    IF index \in DOMAIN pal THEN pal[index] ELSE defaultName

-----------------------------------------------------------------------------
(* toHtml: the scan loop. *)

\* the opening element of a style toggle
ToggleOpen(bit, fmt) ==
    CASE bit = Bold -> IF fmt = "SpanStyle" THEN BoldStyle ELSE BoldClass
      [] bit = Italic -> IF fmt = "SpanStyle" THEN ItalicStyle ELSE ItalicClass
      [] bit = LineThrough ->
            IF fmt = "SpanStyle" THEN LineThroughStyle ELSE LineThroughClass
      [] bit = Underline ->
            IF fmt = "SpanStyle" THEN UnderlineStyle ELSE UnderlineClass
      [] bit = Inverse -> IF fmt = "SpanStyle" THEN InverseStyle ELSE InverseClass

\* the attribute a style control byte toggles
ToggleBit(c) ==
    CASE c = BoldCode -> Bold
      [] c = ItalicCode -> Italic
      [] c = LineThroughCode -> LineThrough
      [] c = UnderlineCode -> Underline
      [] c = UnderlineCode2 -> Underline
      [] c = InverseCode -> Inverse

StyleCodes ==
    {BoldCode, ItalicCode, LineThroughCode, UnderlineCode, UnderlineCode2,
     InverseCode}

\* the opening element of a color directive
ColorOpen(f, b, fmt, pal) ==
    IF fmt = "SpanStyle"
    THEN SpanStyleOpen \o ColorPrefix \o colorName(pal, f, Black)
         \o (IF b # -1
             THEN StyleSep \o BackgroundPrefix \o colorName(pal, b, Transparent)
             ELSE <<>>)
         \o TagEnd
    ELSE SpanClassOpen \o colorName(pal, f, Black)
         \o (IF b # -1
             THEN ClassSep \o colorName(pal, b, Transparent) \o BackgroundSuffix
             ELSE <<>>)
         \o TagEnd

\* the end of an iteration: if (!replacement.isEmpty()) ... else ++pos
Advance(st, replacement) ==
    IF replacement # <<>>
    THEN [st EXCEPT !.processed = Replace(st.processed, st.pos, 1, replacement),
                    !.pos = st.pos + Len(replacement)]
    ELSE [st EXCEPT !.pos = st.pos + 1]

\* ToggleStep with state ^= bit left out of the closing branch
ToggleStep_KeepBit(st, bit, fmt) ==
    IF HasBit(st.state, bit)
    THEN Advance([st EXCEPT !.depth = st.depth - 1], CloseSpan)
    ELSE Advance([st EXCEPT !.depth = st.depth + 1,
                            !.state = XorBit(st.state, bit)], ToggleOpen(bit, fmt))

\* a style control byte
ToggleStep(st, bit, fmt) ==
    IF HasBit(st.state, bit)
    THEN Advance([st EXCEPT !.depth = st.depth - 1,
                            !.state = XorBit(st.state, bit)], CloseSpan)
    ELSE Advance([st EXCEPT !.depth = st.depth + 1,
                            !.state = XorBit(st.state, bit)], ToggleOpen(bit, fmt))

\* ColorStep that replaces the open color element instead of stacking a new
\* one: depth is not incremented when a color is already set
ColorStep_NoStack(st, fmt, pal) ==
    LET pc1 == parseColors(st.processed, st.pos + 1)
        st1 == [st EXCEPT !.len = pc1.len, !.fg = pc1.fg, !.bg = pc1.bg]
    IN  IF pc1.ok
        THEN LET replacement == ColorOpen(pc1.fg, pc1.bg, fmt, pal) IN
             [st1 EXCEPT !.depth = IF st.fg # -1 THEN st.depth ELSE st.depth + 1,
                         !.processed =
                             Replace(st.processed, st.pos, pc1.len + 1, replacement),
                         !.pos = st.pos + Len(replacement)]
        ELSE Advance([st1 EXCEPT !.depth = st.depth - 1], CloseSpan)

\* ColorStep with parseColors leaving fg and bg alone when nothing matches
ColorStep_KeepColors(st, fmt, pal) ==
    LET pc1 == parseColors(st.processed, st.pos + 1)
        st1 == [st EXCEPT !.len = pc1.len, !.fg = pc1.fg, !.bg = pc1.bg]
    IN  IF pc1.ok
        THEN LET replacement == ColorOpen(pc1.fg, pc1.bg, fmt, pal) IN
             [st1 EXCEPT !.depth = st.depth + 1,
                         !.processed =
                             Replace(st.processed, st.pos, pc1.len + 1, replacement),
                         !.pos = st.pos + Len(replacement)]
        ELSE Advance([st EXCEPT !.len = pc1.len, !.depth = st.depth - 1], CloseSpan)

\* the color marker
ColorStep(st, fmt, pal) ==
    LET pc1 == parseColors(st.processed, st.pos + 1)
        st1 == [st EXCEPT !.len = pc1.len, !.fg = pc1.fg, !.bg = pc1.bg]
    IN  IF pc1.ok
        THEN LET replacement == ColorOpen(pc1.fg, pc1.bg, fmt, pal) IN
             [st1 EXCEPT !.depth = st.depth + 1,
                         !.processed =
                             Replace(st.processed, st.pos, pc1.len + 1, replacement),
                         !.pos = st.pos + Len(replacement)]
        ELSE Advance([st1 EXCEPT !.depth = st.depth - 1], CloseSpan)

\* ResetStep that closes one element, whatever the depth
ResetStep_OneClose(st) ==
    IF st.depth > 0
    THEN Advance([st EXCEPT !.state = None, !.depth = 0], CloseSpan)
    ELSE Advance([st EXCEPT !.processed = Remove(st.processed, st.pos, 1),
                            !.pos = st.pos - 1,
                            !.state = None,
                            !.depth = 0], <<>>)

\* ResetStep with state = None left out
ResetStep_KeepState(st) ==
    IF st.depth > 0
    THEN Advance([st EXCEPT !.depth = 0], Repeated(CloseSpan, st.depth))
    ELSE Advance([st EXCEPT !.processed = Remove(st.processed, st.pos, 1),
                            !.pos = st.pos - 1,
                            !.depth = 0], <<>>)

\* ResetStep that removes the byte at depth 0 without rewinding the cursor
ResetStep_NoRewind(st) ==
    IF st.depth > 0
    THEN Advance([st EXCEPT !.state = None, !.depth = 0],
                 Repeated(CloseSpan, st.depth))
    ELSE Advance([st EXCEPT !.processed = Remove(st.processed, st.pos, 1),
                            !.state = None,
                            !.depth = 0], <<>>)

\* the reset byte
ResetStep(st) ==
    IF st.depth > 0
    THEN Advance([st EXCEPT !.state = None, !.depth = 0],
                 Repeated(CloseSpan, st.depth))
    ELSE Advance([st EXCEPT !.processed = Remove(st.processed, st.pos, 1),
                            !.pos = st.pos - 1,
                            !.state = None,
                            !.depth = 0], <<>>)

\* '.', '/' or ':' setting the flag whatever stands around it
UrlCharStep_AnyNeighbour(st) ==
    IF /\ ~st.potentialUrl
       /\ st.pos > 0
       /\ st.pos < Len(st.processed) - 1
    THEN Advance([st EXCEPT !.potentialUrl = TRUE], <<>>)
    ELSE Advance(st, <<>>)

\* '.', '/' or ':'
UrlCharStep(st) ==
    IF /\ ~st.potentialUrl
       /\ st.pos > 0
       /\ ~IsSpace(At(st.processed, st.pos - 1))
       /\ st.pos < Len(st.processed) - 1
       /\ ~IsSpace(At(st.processed, st.pos + 1))
    THEN Advance([st EXCEPT !.potentialUrl = TRUE], <<>>)
    ELSE Advance(st, <<>>)

\* one iteration of the loop of toHtml, on the record of its local variables
HtmlStep(st, fmt, pal) ==
    LET c == At(st.processed, st.pos) IN
    IF c \in StyleCodes THEN ToggleStep(st, ToggleBit(c), fmt)
    ELSE IF c = ColorCode THEN ColorStep(st, fmt, pal)
    ELSE IF c = ResetCode THEN ResetStep(st)
    ELSE IF c \in {46, 47, 58} THEN UrlCharStep(st)
    ELSE Advance(st, <<>>)

\* HtmlStart with the replacement of '<' left out
HtmlStart_NoEscape(t) ==
    [processed |-> t, pos |-> 0, len |-> 0,
     fg |-> -1, bg |-> -1, depth |-> 0, state |-> None, potentialUrl |-> FALSE]

\* the local variables of toHtml when the loop starts
HtmlStart(t) ==
    [processed |-> ReplaceChar(t, 60, LtEntity), pos |-> 0, len |-> 0,
     fg |-> -1, bg |-> -1, depth |-> 0, state |-> None, potentialUrl |-> FALSE]

RECURSIVE HtmlLoop(_, _, _)
HtmlLoop(st, fmt, pal) ==
    IF st.pos < Len(st.processed) THEN HtmlLoop(HtmlStep(st, fmt, pal), fmt, pal)
    ELSE st

-----------------------------------------------------------------------------
(* The default URL pattern of IrcTextFormat, as QRegExp matches it: the     *)
(* leftmost start, and from it the longest match.  An offset q stands       *)
(* between the characters q - 1 and q of the string.                        *)
(*   \b((?:(?:([a-z][\w\.-]+:/{1,3})|www|ftp\d{0,3}[.]                      *)
(*            |[a-z0-9.\-]+[.][a-z]{2,4}/)                                  *)
(*         (?:[^\s()<>]+|\(([^\s()<>]+|(\([^\s()<>]+\)))*\))+               *)
(*         (?:\(([^\s()<>]+|(\([^\s()<>]+\)))*\)|\}\]|[^\s`!()\[\]{};:'".,<>?...]))  *)
(*      |[a-z0-9.\-+_]+@[a-z0-9.\-]+[.][a-z]{1,5}[^\s/`!()\[\]{};:'".,<>?...]) *)

\* [a-z]
IsLower(c) == c \in 97..122
\* \w
IsWord(c) == c \in (48..57) \cup (65..90) \cup (97..122) \cup {95}
\* [\w\.-]
IsSchemeChar(c) == IsWord(c) \/ c \in {46, 45}
\* [a-z0-9.\-]
IsDomainChar(c) == IsLower(c) \/ IsDigit(c) \/ c \in {46, 45}
\* [a-z0-9.\-+_]
IsUserChar(c) == IsDomainChar(c) \/ c \in {43, 95}
\* [^\s()<>]
IsBodyChar(c) == ~IsSpace(c) /\ c \notin {40, 41, 60, 62}
\* [^\s`!()\[\]{};:'".,<>?%1%2%3%4%5%6], %1..%6 being the quotes
\* U+00AB U+00BB U+201C U+201D U+2018 U+2019
IsFinalChar(c) ==
    /\ ~IsSpace(c)
    /\ c \notin {96, 33, 40, 41, 91, 93, 123, 125, 59, 58, 39, 34, 46, 44, 60,
                 62, 63, 171, 187, 8220, 8221, 8216, 8217}
\* [^\s/`!()\[\]{};:'".,<>?%1%2%3%4%5%6]
IsEmailFinalChar(c) == IsFinalChar(c) /\ c # 47

\* the character classes of the pattern, by name
InClass(cls, c) ==
    CASE cls = "lower" -> IsLower(c)
      [] cls = "digit" -> IsDigit(c)
      [] cls = "scheme" -> IsSchemeChar(c)
      [] cls = "domain" -> IsDomainChar(c)
      [] cls = "user" -> IsUserChar(c)
      [] cls = "body" -> IsBodyChar(c)
      [] cls = "final" -> IsFinalChar(c)
      [] cls = "emailFinal" -> IsEmailFinalChar(c)
      [] cls = "slash" -> c = 47

\* the offset after the longest run of characters of a class that starts at q
RunEnd(s, q, cls) ==
    IF q >= Len(s) THEN q
    ELSE CHOOSE r \in q..Len(s) :
            /\ \A k \in q..(r - 1) : InClass(cls, At(s, k))
            /\ r = Len(s) \/ ~InClass(cls, At(s, r))

\* the offsets after one or more characters of a class from q
PlusEnds(s, q, cls) == (q + 1)..RunEnd(s, q, cls)

\* the offsets after lo to hi characters of a class from q
CountEnds(s, q, cls, lo, hi) ==
    {r \in (q + lo)..(q + hi) : r <= RunEnd(s, q, cls)}

\* the offsets after the literal character c from the offsets S
AfterChar(s, S, c) == {q + 1 : q \in {r \in S : r < Len(s) /\ At(s, r) = c}}

\* the offsets after one character of a class from the offsets S
AfterClass(s, S, cls) ==
    {q + 1 : q \in {r \in S : r < Len(s) /\ InClass(cls, At(s, r))}}

\* ([a-z][\w\.-]+:/{1,3})
SchemeEnds(s, q) ==
    IF q < Len(s) /\ IsLower(At(s, q))
    THEN UNION {CountEnds(s, r, "slash", 1, 3) :
                    r \in AfterChar(s, PlusEnds(s, q + 1, "scheme"), 58)}
    ELSE {}

\* www
WwwEnds(s, q) ==
    IF q + 3 <= Len(s) /\ Mid(s, q, 3) = <<119, 119, 119>> THEN {q + 3} ELSE {}

\* ftp\d{0,3}[.]
FtpEnds(s, q) ==
    IF q + 3 <= Len(s) /\ Mid(s, q, 3) = <<102, 116, 112>>
    THEN AfterChar(s, CountEnds(s, q + 3, "digit", 0, 3), 46)
    ELSE {}

\* [a-z0-9.\-]+[.][a-z]{2,4}/
DomainEnds(s, q) ==
    AfterChar(s,
        UNION {CountEnds(s, r, "lower", 2, 4) :
                   r \in AfterChar(s, PlusEnds(s, q, "domain"), 46)},
        47)

\* [^\s()<>]+|(\([^\s()<>]+\)), once
InnerOnce(s, q) ==
    PlusEnds(s, q, "body")
    \cup (IF q < Len(s) /\ At(s, q) = 40
          THEN AfterChar(s, PlusEnds(s, q + 1, "body"), 41)
          ELSE {})

\* the offsets a repeated group reaches: done, and what frontier still adds
RECURSIVE InnerClosure(_, _, _)
InnerClosure(s, done, frontier) ==
    IF frontier = {} THEN done
    ELSE LET new == (UNION {InnerOnce(s, q) : q \in frontier}) \ done
         IN  InnerClosure(s, done \cup new, new)

\* \(([^\s()<>]+|(\([^\s()<>]+\)))*\)
ParenEnds(s, q) ==
    IF q < Len(s) /\ At(s, q) = 40
    THEN AfterChar(s, InnerClosure(s, {q + 1}, {q + 1}), 41)
    ELSE {}

\* [^\s()<>]+|\(...\), once
BodyOnce(s, q) == PlusEnds(s, q, "body") \cup ParenEnds(s, q)

RECURSIVE BodyClosure(_, _, _)
BodyClosure(s, done, frontier) ==
    IF frontier = {} THEN done
    ELSE LET new == (UNION {BodyOnce(s, q) : q \in frontier}) \ done
         IN  BodyClosure(s, done \cup new, new)

\* (?:\(...\)|\}\]|[^\s`!()\[\]{};:'".,<>?...])
FinalEnds(s, q) ==
    ParenEnds(s, q)
    \cup (IF q + 2 <= Len(s) /\ Mid(s, q, 2) = <<125, 93>> THEN {q + 2} ELSE {})
    \cup AfterClass(s, {q}, "final")

\* the body and the final part of a URL, from the offsets S after its head
UrlTailEnds(s, S) ==
    UNION {FinalEnds(s, q) : q \in BodyClosure(s, {}, S)}

\* [a-z0-9.\-+_]+@[a-z0-9.\-]+[.][a-z]{1,5}[^\s/...]
EmailEnds(s, q) ==
    LET afterAt == AfterChar(s, PlusEnds(s, q, "user"), 64)
        afterDomain == UNION {PlusEnds(s, r, "domain") : r \in afterAt}
        afterTld == UNION {CountEnds(s, r, "lower", 1, 5) :
                               r \in AfterChar(s, afterDomain, 46)}
    IN  AfterClass(s, afterTld, "emailFinal")

\* \b at offset q
WordBoundary(s, q) ==
    LET before == q # 0 /\ IsWord(At(s, q - 1))
        after == q # Len(s) /\ IsWord(At(s, q))
    IN  before # after

Max(S) == CHOOSE x \in S : \A y \in S : y <= x

\* the match of the default pattern that starts at offset q: whether there is
\* one, its length, and whether capture group 2 (the scheme) took part in it
MatchAt(s, q) ==
    LET viaScheme == UrlTailEnds(s, SchemeEnds(s, q))
        others == UrlTailEnds(s, WwwEnds(s, q) \cup FtpEnds(s, q) \cup DomainEnds(s, q))
                  \cup EmailEnds(s, q)
        all == IF WordBoundary(s, q) THEN viaScheme \cup others ELSE {}
    IN  IF all = {} THEN [found |-> FALSE, len |-> -1, scheme |-> FALSE]
        ELSE [found |-> TRUE, len |-> Max(all) - q,
              scheme |-> Max(all) \in viaScheme]

\* QRegExp::indexIn(str, from) for the default pattern: -1 when nothing matches
RECURSIVE indexIn(_, _)
indexIn(s, from) ==
    IF from > Len(s) THEN -1
    ELSE IF MatchAt(s, from).found THEN from
    ELSE indexIn(s, from + 1)

-----------------------------------------------------------------------------
(* generateLink and parseLinks. *)

\* "<a href='"
AnchorOpen == <<60, 97, 32, 104, 114, 101, 102, 61, 39>>
\* "</a>"
AnchorClose == <<60, 47, 97, 62>>
\* "mailto:"
Mailto == <<109, 97, 105, 108, 116, 111, 58>>
\* "ftp://"
FtpScheme == <<102, 116, 112, 58, 47, 47>>
\* "http://"
HttpScheme == <<104, 116, 116, 112, 58, 47, 47>>
\* ":/?@%#=+&,"
Exclude == {58, 47, 63, 64, 37, 35, 61, 43, 38, 44}

\* an uppercase hexadecimal digit
HexDigit(n) == IF n < 10 THEN 48 + n ELSE 55 + n

\* QUrl::toPercentEncoding(href, exclude), for characters below U+0080
RECURSIVE toPercentEncoding(_)
toPercentEncoding(s) ==
    IF s = <<>> THEN <<>>
    ELSE LET c == Head(s) IN
         (IF \/ c \in (48..57) \cup (65..90) \cup (97..122) \cup {45, 46, 95, 126}
             \/ c \in Exclude
          THEN <<c>>
          ELSE <<37, HexDigit(c \div 16), HexDigit(c % 16)>>)
         \o toPercentEncoding(Tail(s))

generateLink(protocol, href) ==
    AnchorOpen \o protocol \o toPercentEncoding(href) \o TagEnd \o href \o AnchorClose

\* QString::contains(QChar)
Contains(s, c) == \E i \in 1..Len(s) : s[i] = c

\* QChar::toLower, for characters below U+0080
ToLower(c) == IF c \in 65..90 THEN c + 32 ELSE c

\* QString::startsWith("ftp.", Qt::CaseInsensitive)
StartsWithFtpDot(s) ==
    /\ Len(s) >= 4
    /\ [i \in 1..4 |-> ToLower(s[i])] = <<102, 116, 112, 46>>

\* the protocol with the "ftp." test made before the '@' test
Protocol_FtpFirst(href, hasScheme) ==
    IF ~hasScheme
    THEN IF StartsWithFtpDot(href) THEN FtpScheme
         ELSE IF Contains(href, 64) THEN Mailto
         ELSE HttpScheme
    ELSE <<>>

\* the protocol parseLinks puts before a match
Protocol(href, hasScheme) ==
    IF ~hasScheme
    THEN IF Contains(href, 64) THEN Mailto
         ELSE IF StartsWithFtpDot(href) THEN FtpScheme
         ELSE HttpScheme
    ELSE <<>>

\* the link parseLinks generates for a match: the protocol, when the match has
\* no scheme, and the matched text
LinkFor(href, hasScheme) == generateLink(Protocol(href, hasScheme), href)

\* LinkReplace with the cursor left on the last character of the link
LinkReplace_OnLastChar(st, idx, m, link) ==
    [processed |-> Replace(st.processed, idx, m.len, link),
     pos |-> idx + Len(link) - 1]

\* the match m at idx replaced by its link, and the cursor moved after the link
LinkReplace(st, idx, m, link) ==
    [processed |-> Replace(st.processed, idx, m.len, link),
     pos |-> idx + Len(link)]

\* the match m at idx turned into a link
LinkAt(st, idx, m) ==
    LinkReplace(st, idx, m, LinkFor(Mid(st.processed, idx, m.len), m.scheme))

\* the end of the longest run of the character c in s that starts at offset q
RECURSIVE CharRunEnd(_, _, _)
CharRunEnd(s, q, c) ==
    IF q < Len(s) /\ At(s, q) = c THEN CharRunEnd(s, q + 1, c) ELSE q

\* the match of the pattern "a*" that starts at offset q: the longest run of
\* the letter a, which may be empty; the pattern has no capture group
StarMatchAt(s, q) ==
    [found |-> TRUE, len |-> CharRunEnd(s, q, 97) - q, scheme |-> FALSE]

\* QRegExp(pattern).indexIn(str, from): the matcher of the default pattern;
\* the pattern "a*" matches at every offset up to the end of the text; a
\* pattern that does not compile makes an invalid QRegExp, which never matches
rxIndexIn(pattern, s, from) ==
    IF pattern = "default" THEN indexIn(s, from)
    ELSE IF pattern = "star" THEN (IF from <= Len(s) THEN from ELSE -1)
    ELSE -1

\* the match QRegExp(pattern) found at idx: matchedLength and cap(2)
rxMatchAt(pattern, s, idx) ==
    IF pattern = "star" THEN StarMatchAt(s, idx) ELSE MatchAt(s, idx)

\* one iteration of the loop of parseLinks, on [processed, pos], with the
\* match found at idx
LinkStep(st, idx, pattern) == LinkAt(st, idx, rxMatchAt(pattern, st.processed, idx))

RECURSIVE LinkLoop(_, _)
LinkLoop(st, pattern) ==
    LET idx == rxIndexIn(pattern, st.processed, st.pos) IN
    IF idx >= 0 THEN LinkLoop(LinkStep(st, idx, pattern), pattern) ELSE st.processed

parseLinks(message, pattern) ==
    LinkLoop([processed |-> message, pos |-> 0], pattern)

\* toHtml as a function of the text and the configuration
toHtml(t, pattern, fmt, pal) ==
    LET st == HtmlLoop(HtmlStart(t), fmt, pal) IN
    IF st.potentialUrl /\ pattern # "empty" THEN parseLinks(st.processed, pattern)
    ELSE st.processed

-----------------------------------------------------------------------------
(* The inputs of the model: texts put together from a few chunks. *)

\* the control bytes, a digit, a comma, a letter, '<', the digit groups "12"
\* and "1,2", and the color directive "\x034"
ControlChunks ==
    {<<c>> : c \in ControlCodes \cup {49, 44, 97, 60}}
    \cup {<<49, 50>>, <<49, 44, 50>>, <<ColorCode, 52>>}

\* link-shaped words "www.ab", "a@b.cd", "ftp.ab", "ab:/cd", the word "www.ab"
\* with a space after it, the words ".a" and "a." with a dot at an end, and
\* what may stand around them
LinkChunks ==
    {<<119, 119, 119, 46, 97, 98>>,
     <<119, 119, 119, 46, 97, 98, 32>>,
     <<97, 64, 98, 46, 99, 100>>,
     <<102, 116, 112, 46, 97, 98>>,
     <<97, 98, 58, 47, 99, 100>>,
     <<46, 97>>, <<97, 46>>}
    \cup {<<c>> : c \in {BoldCode, ColorCode, ResetCode, 49, 32, 60, 46}}

\* the concatenations of at most n chunks of C
RECURSIVE ChunkTexts(_, _)
ChunkTexts(C, n) ==
    IF n = 0 THEN {<<>>}
    ELSE LET shorter == ChunkTexts(C, n - 1)
         IN  shorter \cup {u \o c : u \in shorter, c \in C}

Inputs == ChunkTexts(ControlChunks, MaxLen) \cup ChunkTexts(LinkChunks, MaxWords)

-----------------------------------------------------------------------------
(* The state machine: a text format object and one call on it, a loop       *)
(* iteration at a time.                                                     *)

\* the channels a user model may belong to
Channels == {"c1", "c2"}

\* the user model (a channel keeps a list of its user models)
ModelId == "model"

\* the user model right after its construction as a child of a channel that
\* has no users, with no call of lessThan yet and its signals not yet connected
UserModelConstructed ==
    /\ userList = <<>>
    /\ sortOrder = "AscendingOrder"
    /\ dynamicSort = FALSE
    /\ one = "none"
    /\ another = "none"
    /\ lessResult = FALSE
    /\ userOp = <<"none">>
    /\ sortUsed = FALSE
    /\ delivered = <<>>
    /\ channel = "c1"
    /\ userModels = [c \in Channels |-> IF c = "c1" THEN <<ModelId>> ELSE <<>>]
    /\ life = "alive"
    /\ signals = <<>>

\* the text holds one of the characters '.', '/' and ':', without which toHtml
\* never comes to use the URL pattern
HasUrlChar(t) == \E i \in 1..Len(t) : t[i] \in {46, 47, 58}

\* a formatter and a text; a text with a URL character meets a formatter
\* with the default pattern or with link detection off, any other text one
\* with link detection off
Init ==
    /\ UserModelConstructed
    /\ prefixes = <<64, 43>>
    /\ spanFormat \in {"SpanStyle", "SpanClass"}
    /\ palette = DefaultPalette
    /\ pc = "idle"
    /\ op = "none"
    /\ text \in Inputs
    /\ urlPattern \in IF HasUrlChar(text) THEN {"empty", "default"} ELSE {"empty"}
    /\ processed = <<>>
    /\ pos = 0
    /\ len = 0
    /\ fg = -1
    /\ bg = -1
    /\ depth = 0
    /\ state = None
    /\ potentialUrl = FALSE
    /\ linkProcessed = <<>>
    /\ linkPos = 0
    /\ result = <<>>
    /\ lastTok = "none"
    /\ round = 1
    /\ first = <<>>
    /\ input = text
    /\ emitted = 0
    /\ linkRuns = 0
    /\ call = 1
    /\ firstOp = "none"
    /\ firstConfig = <<>>
    /\ error = "none"

\* what the character at the cursor of toPlainText is
PlainTok(s, p) ==
    LET c == At(s, p) IN
    IF c \in ControlCodes \ {ColorCode} THEN "control"
    ELSE IF c = ColorCode
    THEN IF parseColors(s, p + 1).ok THEN "color" ELSE "marker"
    ELSE "literal"

\* what the character at the cursor of toHtml is
HtmlTok(s, p) ==
    LET c == At(s, p) IN
    IF c \in StyleCodes THEN "toggle"
    ELSE IF c = ColorCode
    THEN IF parseColors(s, p + 1).ok THEN "color" ELSE "marker"
    ELSE IF c = ResetCode THEN "reset"
    ELSE IF c \in {46, 47, 58} THEN "urlChar"
    ELSE "literal"

\* how many elements an iteration of toHtml generates for what it meets
Elements(tok, d) ==
    CASE tok \in {"toggle", "color", "marker"} -> 1
      [] tok = "reset" -> IF d > 0 THEN d ELSE 0
      [] OTHER -> 0

\* toPlainText(text) is called
CallToPlainText ==
    /\ pc = "idle"
    /\ pc' = "toPlainText"
    /\ op' = "toPlainText"
    /\ processed' = text
    /\ pos' = 0
    /\ len' = 0
    /\ lastTok' = "none"
    /\ emitted' = 0
    /\ linkRuns' = 0
    /\ firstConfig' = IF call = 1 THEN config ELSE firstConfig
    /\ UNCHANGED <<userVars, config, error, text, fg, bg, depth, state, potentialUrl, linkLocals,
                   result, round, first, input, call, firstOp>>

\* one iteration of the loop of toPlainText
PlainIter ==
    /\ pc = "toPlainText"
    /\ pos < Len(processed)
    /\ LET st == PlainStep([processed |-> processed, pos |-> pos, len |-> len])
       IN  /\ processed' = st.processed
           /\ pos' = st.pos
           /\ len' = st.len
    /\ lastTok' = PlainTok(processed, pos)
    /\ UNCHANGED <<userVars, config, error, pc, op, text, fg, bg, depth, state, potentialUrl,
                   linkLocals, result, round, first, input, emitted, linkRuns,
                   call, firstOp,
                   firstConfig>>

\* toPlainText returns
PlainReturn ==
    /\ pc = "toPlainText"
    /\ pos >= Len(processed)
    /\ result' = processed
    /\ pc' = "done"
    /\ UNCHANGED <<userVars, config, error, op, text, locals, linkLocals, history>>

\* toPlainText is called on the text an earlier toPlainText returned
CallToPlainTextAgain ==
    /\ pc = "done"
    /\ op = "toPlainText"
    /\ round = 1
    /\ round' = 2
    /\ first' = result
    /\ text' = result
    /\ pc' = "toPlainText"
    /\ processed' = result
    /\ pos' = 0
    /\ len' = 0
    /\ lastTok' = "none"
    /\ UNCHANGED <<userVars, config, error, op, fg, bg, depth, state, potentialUrl, linkLocals,
                   result, input, emitted, linkRuns, call, firstOp,
                   firstConfig>>

\* toHtml starting with the attribute bits, the depth and the flag of the
\* call before, as if they were members of the object
CallToHtml_KeepState ==
    /\ pc = "idle"
    /\ pc' = "toHtml"
    /\ op' = "toHtml"
    /\ LET st == HtmlStart(text)
       IN  /\ processed' = st.processed
           /\ pos' = st.pos
           /\ len' = st.len
    /\ lastTok' = "none"
    /\ emitted' = 0
    /\ linkRuns' = 0
    /\ firstConfig' = IF call = 1 THEN config ELSE firstConfig
    /\ UNCHANGED <<userVars, config, error, text, fg, bg, depth, state, potentialUrl,
                   linkLocals, result, round, first, input, call, firstOp>>

\* toHtml(text) is called
CallToHtml ==
    /\ pc = "idle"
    /\ pc' = "toHtml"
    /\ op' = "toHtml"
    /\ LET st == HtmlStart(text)
       IN  /\ processed' = st.processed
           /\ pos' = st.pos
           /\ len' = st.len
           /\ fg' = st.fg
           /\ bg' = st.bg
           /\ depth' = st.depth
           /\ state' = st.state
           /\ potentialUrl' = st.potentialUrl
    /\ lastTok' = "none"
    /\ emitted' = 0
    /\ linkRuns' = 0
    /\ firstConfig' = IF call = 1 THEN config ELSE firstConfig
    /\ UNCHANGED <<userVars, config, error, text, linkLocals, result, round, first, input,
                   call, firstOp>>

\* one iteration of the scan loop of toHtml
HtmlIter ==
    /\ pc = "toHtml"
    /\ pos < Len(processed)
    /\ LET st == HtmlStep([processed |-> processed, pos |-> pos, len |-> len,
                           fg |-> fg, bg |-> bg, depth |-> depth,
                           state |-> state, potentialUrl |-> potentialUrl],
                          spanFormat, palette)
       IN  /\ processed' = st.processed
           /\ pos' = st.pos
           /\ len' = st.len
           /\ fg' = st.fg
           /\ bg' = st.bg
           /\ depth' = st.depth
           /\ state' = st.state
           /\ potentialUrl' = st.potentialUrl
    /\ lastTok' = HtmlTok(processed, pos)
    /\ emitted' = emitted + Elements(HtmlTok(processed, pos), depth)
    /\ UNCHANGED <<userVars, config, error, pc, op, text, linkLocals, result, round, first,
                   input, linkRuns, call, firstOp,
                   firstConfig>>

\* toHtml calling parseLinks whatever the pattern is
HtmlCallParseLinks_IgnorePattern ==
    /\ pc = "toHtml"
    /\ pos >= Len(processed)
    /\ potentialUrl
    /\ pc' = "parseLinks"
    /\ linkProcessed' = processed
    /\ linkPos' = 0
    /\ linkRuns' = linkRuns + 1
    /\ UNCHANGED <<userVars, config, error, op, text, locals, result, lastTok, round, first,
                   input, emitted, call, firstOp,
                   firstConfig>>

\* the scan is over and toHtml calls parseLinks
HtmlCallParseLinks ==
    /\ pc = "toHtml"
    /\ pos >= Len(processed)
    /\ potentialUrl /\ urlPattern # "empty"
    /\ pc' = "parseLinks"
    /\ linkProcessed' = processed
    /\ linkPos' = 0
    /\ linkRuns' = linkRuns + 1
    /\ UNCHANGED <<userVars, config, error, op, text, locals, result, lastTok, round, first,
                   input, emitted, call, firstOp,
                   firstConfig>>

\* the scan is over and toHtml returns without link detection
HtmlReturn ==
    /\ pc = "toHtml"
    /\ pos >= Len(processed)
    /\ ~(potentialUrl /\ urlPattern # "empty")
    /\ result' = processed
    /\ pc' = "done"
    /\ UNCHANGED <<userVars, config, error, op, text, locals, linkLocals, history>>

\* one iteration of the loop of parseLinks: a match is replaced by its anchor
LinkIter ==
    /\ pc = "parseLinks"
    /\ Len(linkProcessed) <= MaxText
    /\ LET idx == rxIndexIn(urlPattern, linkProcessed, linkPos) IN
       /\ idx >= 0
       /\ LET st == LinkStep([processed |-> linkProcessed, pos |-> linkPos], idx,
                             urlPattern)
          IN  /\ linkProcessed' = st.processed
              /\ linkPos' = st.pos
    /\ lastTok' = "link"
    /\ emitted' = emitted + 2
    /\ UNCHANGED <<userVars, config, error, pc, op, text, locals, result, round, first,
                   input, linkRuns, call, firstOp,
                   firstConfig>>

\* parseLinks finds no further match, and toHtml returns its result
LinkReturn ==
    /\ pc = "parseLinks"
    /\ rxIndexIn(urlPattern, linkProcessed, linkPos) < 0
    /\ processed' = linkProcessed
    /\ result' = linkProcessed
    /\ pc' = "done"
    /\ UNCHANGED <<userVars, config, error, op, text, pos, len, fg, bg, depth, state, potentialUrl,
                   linkLocals, history>>

Next ==
    \/ CallToPlainText
    \/ PlainIter
    \/ PlainReturn
    \/ CallToPlainTextAgain
    \/ CallToHtml
    \/ HtmlIter
    \/ HtmlCallParseLinks
    \/ HtmlReturn
    \/ LinkIter
    \/ LinkReturn

Spec == Init /\ [][Next]_vars

-----------------------------------------------------------------------------
(* Several calls on one object: a call, another call in between, and the    *)
(* first text again. The locals of a finished call stay in the variables as *)
(* what the memory happens to hold; the next call sets up its own. The      *)
(* caller takes the string a call returned before it calls again.           *)

\* a bold toggle, the color directive "\x034", a reset and "www.ab"
CallChunks ==
    {<<BoldCode>>, <<ColorCode, 52>>, <<ResetCode>>,
     <<119, 119, 119, 46, 97, 98>>}

\* the texts of the first call
CallInputs == ChunkTexts(CallChunks, MaxCallLen)

\* the texts of the call in between
Between == ChunkTexts(CallChunks, 1)

\* a formatter with any of the patterns (none, the default one, one that does
\* not compile, and "a*"), and the first text
InitCalls ==
    /\ UserModelConstructed
    /\ prefixes = <<64, 43>>
    /\ urlPattern \in {"empty", "default", "invalid", "star"}
    /\ spanFormat \in {"SpanStyle", "SpanClass"}
    /\ palette = DefaultPalette
    /\ pc = "idle"
    /\ op = "none"
    /\ text \in CallInputs
    /\ processed = <<>>
    /\ pos = 0
    /\ len = 0
    /\ fg = -1
    /\ bg = -1
    /\ depth = 0
    /\ state = None
    /\ potentialUrl = FALSE
    /\ linkProcessed = <<>>
    /\ linkPos = 0
    /\ result = <<>>
    /\ lastTok = "none"
    /\ round = 1
    /\ first = <<>>
    /\ input = text
    /\ emitted = 0
    /\ linkRuns = 0
    /\ call = 1
    /\ firstOp = "none"
    /\ firstConfig = <<>>
    /\ error = "none"

\* the span formats of IrcTextFormat::SpanFormat
SpanFormats == {"SpanStyle", "SpanClass"}

\* the URL patterns of the model: none, the default one, one that does not
\* compile, and "a*"
UrlPatterns == {"empty", "default", "invalid", "star"}

\* IrcTextFormat::setUrlPattern(pattern), called after a call has returned; the
\* model follows the object up to its third call
setUrlPattern(pattern) ==
    /\ pc = "done"
    /\ call < 3
    /\ urlPattern' = pattern
    /\ UNCHANGED <<userVars, spanFormat, palette, pc, op, text, locals, linkLocals,
                   result, error, history>>

\* IrcTextFormat::setSpanFormat(format), called after a call has returned
setSpanFormat(format) ==
    /\ pc = "done"
    /\ call < 3
    /\ spanFormat' = format
    /\ UNCHANGED <<userVars, urlPattern, palette, pc, op, text, locals, linkLocals,
                   result, error, history>>

\* the first call has returned, and the caller goes on to call a function on
\* another text
CallBetween ==
    /\ pc = "done"
    /\ call = 1
    /\ call' = 2
    /\ first' = result
    /\ firstOp' = op
    /\ text' \in Between
    /\ pc' = "idle"
    /\ result' = <<>>
    /\ UNCHANGED <<userVars, config, error, op, locals, linkLocals, lastTok, round,
                   input, emitted, linkRuns, firstConfig>>

\* the call in between has returned, and the caller goes on to call a function
\* on the first text again
CallSame ==
    /\ pc = "done"
    /\ call = 2
    /\ call' = 3
    /\ text' = input
    /\ pc' = "idle"
    /\ result' = <<>>
    /\ UNCHANGED <<userVars, config, error, op, locals, linkLocals, lastTok, round,
                   first, input, emitted, linkRuns, firstOp,
                   firstConfig>>

NextCalls ==
    \/ CallToPlainText
    \/ PlainIter
    \/ PlainReturn
    \/ CallToHtml
    \/ HtmlIter
    \/ HtmlCallParseLinks
    \/ HtmlReturn
    \/ LinkIter
    \/ LinkReturn
    \/ CallBetween
    \/ CallSame
    \/ \E pattern \in UrlPatterns : setUrlPattern(pattern)
    \/ \E format \in SpanFormats : setSpanFormat(format)

SpecCalls == InitCalls /\ [][NextCalls]_vars

-----------------------------------------------------------------------------
(* IrcUserModel: the users of a channel, and their order.                   *)

\* users by name and prefix: "B", "a", "+c", "@D", "%e", and for comparisons
\* also "b", "@+A" and "+C"
UserPool ==
    << [name |-> <<66>>, prefix |-> <<>>],
       [name |-> <<97>>, prefix |-> <<>>],
       [name |-> <<99>>, prefix |-> <<43>>],
       [name |-> <<68>>, prefix |-> <<64>>],
       [name |-> <<101>>, prefix |-> <<37>>],
       [name |-> <<98>>, prefix |-> <<>>],
       [name |-> <<65>>, prefix |-> <<64, 43>>],
       [name |-> <<67>>, prefix |-> <<43>>] >>

\* the users a channel delivers; no two have the same name in any case of the
\* letters
Users == {UserPool[i] : i \in 1..MaxUsers}

\* the users lessThan is called on
AllUsers == {UserPool[i] : i \in DOMAIN UserPool}

\* prefix lists of a network: "@+", "+@" and "+"
PrefixLists == {<<64, 43>>, <<43, 64>>, <<43>>}

\* the lists without repetition of elements of S
DistinctLists(S) ==
    {l \in UNION {[1..k -> S] : k \in 0..Cardinality(S)} :
        \A i, j \in 1..Len(l) : i # j => l[i] # l[j]}

\* QList::indexOf: the first 0-based index of x in list, -1 without one
indexOf(list, x) ==
    IF \E i \in 1..Len(list) : list[i] = x
    THEN (CHOOSE i \in 1..Len(list) :
              list[i] = x /\ \A j \in 1..(i - 1) : list[j] # x) - 1
    ELSE -1

\* QList::insert(i, value), for 0 <= i <= size
Insert(list, i, value) ==
    SubSeq(list, 1, i) \o <<value>> \o SubSeq(list, i + 1, Len(list))

\* QList::removeAt(i), for 0 <= i < size
RemoveAt(list, i) == SubSeq(list, 1, i) \o SubSeq(list, i + 2, Len(list))

\* QList::removeOne(value): the list without the first occurrence of value
removeOne(list, value) ==
    IF indexOf(list, value) # -1 THEN RemoveAt(list, indexOf(list, value)) ELSE list

\* QString::compare(other, Qt::CaseInsensitive): negative, zero or positive
RECURSIVE compare(_, _)
compare(n1, n2) ==
    IF n1 = <<>> \/ n2 = <<>> THEN Len(n1) - Len(n2)
    ELSE IF ToLower(Head(n1)) # ToLower(Head(n2))
    THEN ToLower(Head(n1)) - ToLower(Head(n2))
    ELSE compare(Tail(n1), Tail(n2))

\* QString::compare(other), case sensitive
RECURSIVE compare_CaseSensitive(_, _)
compare_CaseSensitive(n1, n2) ==
    IF n1 = <<>> \/ n2 = <<>> THEN Len(n1) - Len(n2)
    ELSE IF Head(n1) # Head(n2) THEN Head(n1) - Head(n2)
    ELSE compare_CaseSensitive(Tail(n1), Tail(n2))

\* the position of the first prefix symbol of a user in the prefix list, -1
\* for a user without a prefix
PrefixIndex(p, pfx) == IF p # <<>> THEN indexOf(pfx, p[1]) ELSE -1

\* lessThan comparing the names as they are written
lessThan_CaseSensitive(u1, u2, pfx) ==
    LET i1 == PrefixIndex(u1.prefix, pfx)
        i2 == PrefixIndex(u2.prefix, pfx)
    IN  IF i1 >= 0 /\ i2 < 0 THEN TRUE
        ELSE IF i1 < 0 /\ i2 >= 0 THEN FALSE
        ELSE IF i1 >= 0 /\ i2 >= 0 /\ i1 # i2 THEN i1 < i2
        ELSE compare_CaseSensitive(u1.name, u2.name) < 0

\* IrcUserModel::lessThan(one, another), pfx being the prefix list of the
\* network of the users
lessThan(u1, u2, pfx) ==
    LET i1 == PrefixIndex(u1.prefix, pfx)
        i2 == PrefixIndex(u2.prefix, pfx)
    IN  IF i1 >= 0 /\ i2 < 0 THEN TRUE
        ELSE IF i1 < 0 /\ i2 >= 0 THEN FALSE
        ELSE IF i1 >= 0 /\ i2 >= 0 /\ i1 # i2 THEN i1 < i2
        ELSE compare(u1.name, u2.name) < 0

\* IrcUserLessThan and IrcUserGreaterThan, by the sort order they are used for
Compares(order, u1, u2, pfx) ==
    IF order = "AscendingOrder" THEN lessThan(u1, u2, pfx) ELSE lessThan(u2, u1, pfx)

\* qUpperBound(begin, end, value, lessThan): the binary search of QtAlgorithms,
\* on the n elements from the 0-based index begin
RECURSIVE qUpperBound(_, _, _, _, _, _)
qUpperBound(list, begin, n, value, order, pfx) ==
    IF n <= 0 THEN begin
    ELSE IF Compares(order, value, list[begin + (n \div 2) + 1], pfx)
    THEN qUpperBound(list, begin, n \div 2, value, order, pfx)
    ELSE qUpperBound(list, begin + (n \div 2) + 1, n - ((n \div 2) + 1), value,
                     order, pfx)

\* value put into a sorted list before the first element it compares before
RECURSIVE SortedInsert(_, _, _, _)
SortedInsert(sorted, value, order, pfx) ==
    IF sorted = <<>> THEN <<value>>
    ELSE IF Compares(order, value, Head(sorted), pfx) THEN <<value>> \o sorted
    ELSE <<Head(sorted)>> \o SortedInsert(Tail(sorted), value, order, pfx)

\* qSort(begin, end, lessThan): the list in the order of the comparison, which
\* is one list only as two users that compare as equal are the same user
RECURSIVE qSort(_, _, _)
qSort(list, order, pfx) ==
    IF list = <<>> THEN <<>>
    ELSE SortedInsert(qSort(Tail(list), order, pfx), Head(list), order, pfx)

\* a text format right after its construction, with no call on it
FormatConstructed ==
    /\ urlPattern = "default"
    /\ spanFormat = "SpanStyle"
    /\ palette = DefaultPalette
    /\ pc = "idle"
    /\ op = "none"
    /\ text = <<>>
    /\ processed = <<>>
    /\ pos = 0
    /\ len = 0
    /\ fg = -1
    /\ bg = -1
    /\ depth = 0
    /\ state = None
    /\ potentialUrl = FALSE
    /\ linkProcessed = <<>>
    /\ linkPos = 0
    /\ result = <<>>
    /\ lastTok = "none"
    /\ round = 1
    /\ first = <<>>
    /\ input = <<>>
    /\ emitted = 0
    /\ linkRuns = 0
    /\ call = 1
    /\ firstOp = "none"
    /\ firstConfig = <<>>
    /\ error = "none"

\* a user model right after its construction, for a network with any of the
\* prefix lists
InitUsers ==
    /\ FormatConstructed
    /\ UserModelConstructed
    /\ prefixes \in PrefixLists

\* the user is in the list
InList(list, user) == \E i \in 1..Len(list) : list[i] = user

\* a signal as its receivers get it: its name and its argument
Signal(sig, payload) == [sig |-> sig, payload |-> payload]

\* the argument of namesChanged: the keys of the channel's userMap
ChannelNames == "userMap.keys()"

\* what addUser emits for a user inserted at idx, with the list after the
\* insertion: beginInsertRows and endInsertRows, then its own signals
addUserSignals(user, idx, list) ==
    << Signal("rowsAboutToBeInserted", idx),
       Signal("rowsInserted", idx),
       Signal("added", user),
       Signal("namesChanged", ChannelNames),
       Signal("usersChanged", list),
       Signal("countChanged", Len(list)) >>

\* what removeUser emits for a user removed from idx, with the list after the
\* removal: beginRemoveRows and endRemoveRows, then its own signals
removeUserSignals(user, idx, list) ==
    << Signal("rowsAboutToBeRemoved", idx),
       Signal("rowsRemoved", idx),
       Signal("removed", user),
       Signal("namesChanged", ChannelNames),
       Signal("usersChanged", list),
       Signal("countChanged", Len(list)) >>

\* what setUsers emits, with the list it has set: beginResetModel, added for
\* every user in the order of the list, endResetModel, then its own signals
setUsersSignals(list) ==
    << Signal("modelAboutToBeReset", "none") >>
    \o [i \in 1..Len(list) |-> Signal("added", list[i])]
    \o << Signal("modelReset", "none"),
          Signal("namesChanged", ChannelNames),
          Signal("usersChanged", list),
          Signal("countChanged", Len(list)) >>

\* the list setUsers sets: the users, sorted when the model sorts dynamically
setUsersList(users, dynamic, order, pfx) ==
    IF dynamic THEN qSort(users, order, pfx) ELSE users

\* the index at which addUser inserts the user
addUserIndex(list, user, dynamic, order, pfx) ==
    IF dynamic THEN qUpperBound(list, 0, Len(list), user, order, pfx)
    ELSE Len(list)

\* addUser putting every user at the front of the list
addUser_Front(user) ==
    /\ Len(userList) < MaxUsers
    /\ userList' = Insert(userList, 0, user)
    /\ signals' = addUserSignals(user, 0, Insert(userList, 0, user))
    /\ userOp' = <<"addUser", user>>
    /\ delivered' = IF sortUsed THEN <<>> ELSE Append(delivered, user)
    /\ UNCHANGED <<formatVars, sortOrder, dynamicSort, prefixes, one, another,
                   lessResult, sortUsed, registry>>

\* addUser emitting added(user) before the rows are inserted
addUser_AddedFirst(user) ==
    /\ Len(userList) < MaxUsers
    /\ userList' = Insert(userList,
                          addUserIndex(userList, user, dynamicSort, sortOrder, prefixes),
                          user)
    /\ signals' = << Signal("added", user),
                     Signal("rowsAboutToBeInserted", Len(userList)),
                     Signal("rowsInserted", Len(userList)),
                     Signal("namesChanged", ChannelNames),
                     Signal("usersChanged", userList'),
                     Signal("countChanged", Len(userList')) >>
    /\ userOp' = <<"addUser", user>>
    /\ delivered' = IF sortUsed THEN <<>> ELSE Append(delivered, user)
    /\ UNCHANGED <<formatVars, sortOrder, dynamicSort, prefixes, one, another,
                   lessResult, sortUsed, registry>>

\* IrcUserModelPrivate::addUser(user), called by the channel for a user that
\* joined it; the user is inserted whether the list holds it already or not.
\* The model follows lists of up to MaxUsers entries.
addUser(user) ==
    /\ Len(userList) < MaxUsers
    /\ userList' = Insert(userList,
                          addUserIndex(userList, user, dynamicSort, sortOrder, prefixes),
                          user)
    /\ signals' = addUserSignals(user,
                          addUserIndex(userList, user, dynamicSort, sortOrder, prefixes),
                          userList')
    /\ userOp' = <<"addUser", user>>
    /\ delivered' = IF sortUsed THEN <<>> ELSE Append(delivered, user)
    /\ UNCHANGED <<formatVars, sortOrder, dynamicSort, prefixes, one, another,
                   lessResult, sortUsed, registry>>

\* IrcUserModelPrivate::removeUser(user), called by the channel for a user
\* that left it
removeUser(user) ==
    /\ IF indexOf(userList, user) # -1
       THEN /\ userList' = RemoveAt(userList, indexOf(userList, user))
            /\ signals' = removeUserSignals(user, indexOf(userList, user), userList')
       ELSE /\ userList' = userList
            /\ signals' = <<>>
    /\ userOp' = <<"removeUser", user>>
    /\ delivered' = removeOne(delivered, user)
    /\ UNCHANGED <<formatVars, sortOrder, dynamicSort, prefixes, one, another,
                   lessResult, sortUsed, registry>>

\* IrcUserModelPrivate::setUsers(users), called by the channel with its users
setUsers(users) ==
    /\ userList' = setUsersList(users, dynamicSort, sortOrder, prefixes)
    /\ signals' = setUsersSignals(userList')
    /\ userOp' = <<"setUsers">>
    /\ delivered' = IF sortUsed THEN <<>> ELSE users
    /\ UNCHANGED <<formatVars, sortOrder, dynamicSort, prefixes, one, another,
                   lessResult, sortUsed, registry>>

\* IrcUserModel::setDynamicSort(dynamic)
setDynamicSort(dynamic) ==
    /\ dynamicSort' = dynamic
    /\ signals' = <<>>
    /\ userOp' = <<"setDynamicSort", dynamic>>
    /\ sortUsed' = (sortUsed \/ dynamic)
    /\ delivered' = IF sortUsed \/ dynamic THEN <<>> ELSE delivered
    /\ UNCHANGED <<formatVars, userList, sortOrder, prefixes, one, another,
                   lessResult, registry>>

\* IrcUserModel::sort(column, order)
sort(order) ==
    /\ sortOrder' = order
    /\ userList' = qSort(userList, order, prefixes)
    /\ signals' = << Signal("layoutAboutToBeChanged", "none"),
                     Signal("layoutChanged", "none") >>
    /\ userOp' = <<"sort", order>>
    /\ sortUsed' = TRUE
    /\ delivered' = <<>>
    /\ UNCHANGED <<formatVars, dynamicSort, prefixes, one, another, lessResult,
                   registry>>

NextUsers ==
    \/ \E user \in Users : addUser(user)
    \/ \E user \in Users : removeUser(user)
    \/ \E users \in DistinctLists(Users) : setUsers(users)
    \/ \E dynamic \in BOOLEAN : setDynamicSort(dynamic)
    \/ \E order \in {"AscendingOrder", "DescendingOrder"} : sort(order)

SpecUsers == InitUsers /\ [][NextUsers]_vars

-----------------------------------------------------------------------------
(* The user model and its channel: construction, setChannel, the calls of   *)
(* the channel, and destruction.                                            *)

\* the userModels lists after the model left the channel from and joined the
\* channel to (either may be "null")
Moved(models, from, to) ==
    [c \in Channels |->
        IF c = from /\ c = to THEN Append(removeOne(models[c], ModelId), ModelId)
        ELSE IF c = from THEN removeOne(models[c], ModelId)
        ELSE IF c = to THEN Append(models[c], ModelId)
        ELSE models[c]]

\* IrcUserModel::rowCount(parent) for the root index
rowCount(ch, list) == IF ch = "null" THEN 0 ELSE Len(list)

\* IrcUserModel::count()
count(ch, list) == rowCount(ch, list)

\* IrcUserModel::users()
users(list) == list

\* IrcUserModel::get(index): QList::value(index), the pointer to a user as a
\* sequence of that user, and the null pointer, for an index outside the
\* list, as the empty sequence
get(list, index) ==
    IF 0 <= index /\ index < Len(list) THEN <<list[index + 1]>> ELSE <<>>

\* the lists of users a channel may hold
ChannelLists == DistinctLists(Users)

\* IrcUserModel::IrcUserModel(parent): the state after the construction of a
\* model as a child of parent, a channel that holds the given users, or of
\* something that is not a channel ("null")
InitChannel ==
    /\ FormatConstructed
    /\ prefixes = <<64, 43>>
    /\ sortOrder = "AscendingOrder"
    /\ dynamicSort = FALSE
    /\ one = "none"
    /\ another = "none"
    /\ lessResult = FALSE
    /\ sortUsed = FALSE
    /\ life = "alive"
    /\ channel \in Channels \cup {"null"}
    /\ userModels = Moved([c \in Channels |-> <<>>], "null", channel)
    /\ userList \in IF channel = "null" THEN {<<>>} ELSE ChannelLists
    /\ delivered = userList
    /\ userOp = <<"IrcUserModel", channel>>
    /\ signals = IF channel = "null" THEN <<>>
                 ELSE << Signal("modelAboutToBeReset", "none") >>
                      \o setUsersSignals(userList)
                      \o << Signal("modelReset", "none"),
                            Signal("channelChanged", channel) >>

\* setChannel that leaves the old channel without registering the model with
\* the new one
setChannel_NoAppend(ch, list) ==
    /\ life = "alive"
    /\ IF channel # ch
       THEN /\ userModels' = Moved(userModels, channel, "null")
            /\ channel' = ch
            /\ IF ch # "null"
               THEN /\ userList' = setUsersList(list, dynamicSort, sortOrder, prefixes)
                    /\ signals' = << Signal("modelAboutToBeReset", "none") >>
                                  \o setUsersSignals(userList')
                                  \o << Signal("modelReset", "none"),
                                        Signal("channelChanged", ch) >>
                    /\ delivered' = IF sortUsed THEN <<>> ELSE list
               ELSE /\ signals' = << Signal("modelAboutToBeReset", "none"),
                                     Signal("modelReset", "none"),
                                     Signal("channelChanged", ch) >>
                    /\ UNCHANGED <<userList, delivered>>
       ELSE /\ signals' = <<>>
            /\ UNCHANGED <<channel, userModels, userList, delivered>>
    /\ userOp' = <<"setChannel", ch>>
    /\ UNCHANGED <<formatVars, sortOrder, dynamicSort, prefixes, one, another,
                   lessResult, sortUsed, life>>

\* IrcUserModel::setChannel(channel), for a channel that holds the users of
\* list, or for no channel ("null")
setChannel(ch, list) ==
    /\ life = "alive"
    /\ IF channel # ch
       THEN /\ userModels' = Moved(userModels, channel, ch)
            /\ channel' = ch
            /\ IF ch # "null"
               THEN /\ userList' = setUsersList(list, dynamicSort, sortOrder, prefixes)
                    /\ signals' = << Signal("modelAboutToBeReset", "none") >>
                                  \o setUsersSignals(userList')
                                  \o << Signal("modelReset", "none"),
                                        Signal("channelChanged", ch) >>
                    /\ delivered' = IF sortUsed THEN <<>> ELSE list
               ELSE /\ signals' = << Signal("modelAboutToBeReset", "none"),
                                     Signal("modelReset", "none"),
                                     Signal("channelChanged", ch) >>
                    /\ UNCHANGED <<userList, delivered>>
       ELSE /\ signals' = <<>>
            /\ UNCHANGED <<channel, userModels, userList, delivered>>
    /\ userOp' = <<"setChannel", ch>>
    /\ UNCHANGED <<formatVars, sortOrder, dynamicSort, prefixes, one, another,
                   lessResult, sortUsed, life>>

\* IrcUserModel::~IrcUserModel()
destroy ==
    /\ life = "alive"
    /\ life' = "destroyed"
    /\ userModels' = Moved(userModels, channel, "null")
    /\ signals' = <<>>
    /\ userOp' = <<"~IrcUserModel">>
    /\ UNCHANGED <<formatVars, userList, sortOrder, dynamicSort, prefixes, one,
                   another, lessResult, sortUsed, delivered, channel>>

\* the channel of the model calls the model: a channel calls the user models
\* of its userModels list
CalledByChannel ==
    /\ life = "alive"
    /\ channel # "null"
    /\ InList(userModels[channel], ModelId)

NextChannel ==
    \/ \E ch \in Channels \cup {"null"}, list \in ChannelLists : setChannel(ch, list)
    \/ destroy
    \/ \E user \in Users : CalledByChannel /\ addUser(user)
    \/ \E user \in Users : CalledByChannel /\ removeUser(user)
    \/ \E list \in ChannelLists : CalledByChannel /\ setUsers(list)

SpecChannel == InitChannel /\ [][NextChannel]_vars

\* lessThan(one, another) is called, by a sort or by a view of the model
callLessThan(u1, u2) ==
    /\ one' = u1
    /\ another' = u2
    /\ lessResult' = lessThan(u1, u2, prefixes)
    /\ userOp' = <<"lessThan">>
    /\ UNCHANGED <<formatVars, userList, sortOrder, dynamicSort, prefixes, sortUsed,
                   delivered, registry, signals>>

NextLessThan == \E u1, u2 \in AllUsers : callLessThan(u1, u2)

SpecLessThan == InitUsers /\ [][NextLessThan]_vars

-----------------------------------------------------------------------------
(* What the claims say, stated apart from the code's way of computing it.   *)

\* the strings "d", "dd", "d,d", "d,dd", "dd,d" and "dd,dd" of digits d: one or
\* two digits, optionally followed by a comma and one or two more digits
IsDigitGroup(w) ==
    \E a \in 1..2, b \in 0..2 :
        /\ Len(w) = a + (IF b > 0 THEN 1 + b ELSE 0)
        /\ \A i \in 1..a : IsDigit(w[i])
        /\ b > 0 => /\ w[a + 1] = 44
                    /\ \A i \in (a + 2)..(a + 1 + b) : IsDigit(w[i])

\* the length of the longest digit group that starts at position p of s, 0 if
\* none does
DigitGroupLen(s, p) ==
    LET ns == {n \in 1..5 : p + n <= Len(s) /\ IsDigitGroup(Mid(s, p, n))}
    IN  IF ns = {} THEN 0 ELSE Max(ns)

\* s from position p on, without its control bytes and without the digit
\* group that directly follows a color marker
RECURSIVE Stripped(_, _)
Stripped(s, p) ==
    IF p >= Len(s) THEN <<>>
    ELSE IF At(s, p) = ColorCode
    THEN Stripped(s, p + 1 + DigitGroupLen(s, p + 1))
    ELSE IF At(s, p) \in ControlCodes THEN Stripped(s, p + 1)
    ELSE <<At(s, p)>> \o Stripped(s, p + 1)

\* a call of toPlainText has returned
PlainDone == pc = "done" /\ op = "toPlainText"

\* a call of toHtml has returned
HtmlDone == pc = "done" /\ op = "toHtml"

-----------------------------------------------------------------------------
(* The claims about toPlainText. *)

\* C1: toPlainText is idempotent: toPlainText called on the text an earlier
\* toPlainText returned gives that text back.
C1_Idempotent == (PlainDone /\ round = 2) => result = first

\* C1: the first call removed control bytes and a digit group from the input,
\* and the second call has returned.
C1_Witness ==
    /\ PlainDone /\ round = 2
    /\ first # <<>>
    /\ Len(first) + 3 <= Len(input)

\* C2: the result of toPlainText contains none of the control bytes.
C2_NoControlBytes ==
    PlainDone => \A i \in 1..Len(result) : result[i] \notin ControlCodes

\* C2: toPlainText has returned for an input that starts with three control
\* bytes, so that each removal brought the next one to the cursor.
C2_Witness ==
    /\ PlainDone /\ round = 1
    /\ Len(text) = 3
    /\ \A i \in 1..3 : text[i] \in ControlCodes
    /\ text[1] # text[2]

\* C3: toPlainText only deletes: its result is its argument without the
\* control bytes and without the digit group (one or two digits, optionally a
\* comma and one or two more digits) directly after a color marker; all other
\* characters are kept in their order, so the result is no longer than the
\* argument.
C3_OnlyDeletes ==
    PlainDone => /\ result = Stripped(text, 0)
                 /\ Len(result) <= Len(text)

\* C3: toPlainText has returned for "\x0312" followed by a third digit, and
\* the third digit is the result.
C3_Witness ==
    /\ PlainDone /\ round = 1
    /\ text = <<ColorCode, 49, 50, 49>>
    /\ result = <<49>>

-----------------------------------------------------------------------------
(* The claims about toHtml. *)

\* w stands in s at the 1-based index i
OccursAt(s, i, w) == i + Len(w) - 1 <= Len(s) /\ SubSeq(s, i, i + Len(w) - 1) = w

\* how often w occurs in s
Count(s, w) == Cardinality({i \in 1..Len(s) : OccursAt(s, i, w)})

\* the opening span elements of s: the occurrences of "<span "
SpanOpens(s) == Count(s, <<60, 115, 112, 97, 110, 32>>)

\* the closing span elements of s: the occurrences of "</span>"
SpanCloses(s) == Count(s, <<60, 47, 115, 112, 97, 110, 62>>)

\* the scan loop of toHtml is about to look at the character c
ScanMeets(c) == pc = "toHtml" /\ pos < Len(processed) /\ At(processed, pos) = c

\* a digit stands directly after the cursor
DigitFollows == pos + 1 < Len(processed) /\ IsDigit(At(processed, pos + 1))

\* C4: every '<' of the result of toHtml starts a span open tag, a span close
\* tag or an anchor tag, and there are as many '<' as the formatter generated
\* elements: no '<' of the input is left.
C4_NoLiteralLt ==
    HtmlDone =>
        /\ \A i \in 1..Len(result) :
              result[i] = 60 =>
                  \/ OccursAt(result, i, <<60, 115, 112, 97, 110, 32, 115, 116, 121, 108, 101, 61, 39>>)
                  \/ OccursAt(result, i, <<60, 115, 112, 97, 110, 32, 99, 108, 97, 115, 115, 61, 39>>)
                  \/ OccursAt(result, i, <<60, 47, 115, 112, 97, 110, 62>>)
                  \/ OccursAt(result, i, <<60, 97, 32, 104, 114, 101, 102, 61, 39>>)
                  \/ OccursAt(result, i, <<60, 47, 97, 62>>)
        /\ Count(result, <<60>>) = emitted

\* C4: toHtml has returned for "www.ab<", a '<' directly after a URL, and the
\* result holds the anchor and the escaped '<'.
C4_Witness ==
    /\ HtmlDone
    /\ text = <<119, 119, 119, 46, 97, 98, 60>>
    /\ Count(result, <<60, 97, 32, 104, 114, 101, 102, 61, 39>>) = 1
    /\ Count(result, <<38, 108, 116>>) >= 1

\* C5 (as claimed): depth is never negative.
C5_DepthNeverNegative == depth >= 0

\* the attribute a style control byte stands for
AttributeOf(c) ==
    CASE c = 2 -> Bold
      [] c = 29 -> Italic
      [] c = 19 -> LineThrough
      [] c \in {21, 31} -> Underline
      [] c = 22 -> Inverse

\* the style declaration of an attribute
AttributeStyle(bit) ==
    CASE bit = Bold -> <<102, 111, 110, 116, 45, 119, 101, 105, 103, 104, 116, 58, 32, 98, 111, 108, 100>>
      [] bit = Italic -> <<102, 111, 110, 116, 45, 115, 116, 121, 108, 101, 58, 32, 105, 116, 97, 108, 105, 99>>
      [] bit = LineThrough -> <<116, 101, 120, 116, 45, 100, 101, 99, 111, 114, 97, 116, 105, 111, 110, 58, 32, 108, 105, 110, 101, 45, 116, 104, 114, 111, 117, 103, 104>>
      [] bit = Underline -> <<116, 101, 120, 116, 45, 100, 101, 99, 111, 114, 97, 116, 105, 111, 110, 58, 32, 117, 110, 100, 101, 114, 108, 105, 110, 101>>
      [] bit = Inverse -> <<116, 101, 120, 116, 45, 100, 101, 99, 111, 114, 97, 116, 105, 111, 110, 58, 32, 105, 110, 118, 101, 114, 115, 101>>

\* the class name of an attribute
AttributeClass(bit) ==
    CASE bit = Bold -> <<98, 111, 108, 100>>
      [] bit = Italic -> <<105, 116, 97, 108, 105, 99>>
      [] bit = LineThrough -> <<108, 105, 110, 101, 45, 116, 104, 114, 111, 117, 103, 104>>
      [] bit = Underline -> <<117, 110, 100, 101, 114, 108, 105, 110, 101>>
      [] bit = Inverse -> <<105, 110, 118, 101, 114, 115, 101>>

\* the opening element of an attribute
ElementOf(bit, fmt) ==
    IF fmt = "SpanStyle"
    THEN <<60, 115, 112, 97, 110, 32, 115, 116, 121, 108, 101, 61, 39>> \o AttributeStyle(bit) \o <<39, 62>>
    ELSE <<60, 115, 112, 97, 110, 32, 99, 108, 97, 115, 115, 61, 39>> \o AttributeClass(bit) \o <<39, 62>>

\* C6: a style control byte toggles its attribute: with the bit set it is
\* replaced by one closing element, depth goes down by one and the bit is
\* cleared; with the bit clear it is replaced by the opening element of the
\* attribute, depth goes up by one and the bit is set. The two underline codes
\* share a bit, and no other bit changes.
C6_StyleToggle ==
    [][\A c \in {2, 19, 21, 22, 29, 31} :
          ScanMeets(c) =>
              LET bit == AttributeOf(c) IN
              IF HasBit(state, bit)
              THEN /\ processed' = Replace(processed, pos, 1, <<60, 47, 115, 112, 97, 110, 62>>)
                   /\ depth' = depth - 1
                   /\ state' = state - bit
              ELSE /\ processed' = Replace(processed, pos, 1, ElementOf(bit, spanFormat))
                   /\ depth' = depth + 1
                   /\ state' = state + bit]_vars

\* C6: the scan of "\x15\x1f" is over: the first underline code opened an
\* element and the other one closed it.
C6_Witness ==
    /\ pc = "toHtml"
    /\ text = <<21, 31>>
    /\ pos = Len(processed)
    /\ lastTok = "toggle"
    /\ SpanOpens(processed) = 1 /\ SpanCloses(processed) = 1
    /\ depth = 0 /\ state = None

\* the text is literal text and style toggles, followed by one reset byte
TogglesThenReset(s) ==
    /\ Len(s) >= 1
    /\ s[Len(s)] = ResetCode
    /\ \A i \in 1..(Len(s) - 1) : s[i] \notin {ColorCode, ResetCode}

\* C7: for a text of literal text and style toggles followed by one reset
\* byte, the reset emits as many closing elements as there are elements open
\* (opening elements minus closing elements emitted before it), and the output
\* then has as many closing as opening elements.
C7_ResetClosesOpen ==
    [][(TogglesThenReset(text) /\ ScanMeets(ResetCode)) =>
          /\ SpanCloses(processed') - SpanCloses(processed)
                 = SpanOpens(processed) - SpanCloses(processed)
          /\ SpanOpens(processed') = SpanOpens(processed)
          /\ SpanCloses(processed') = SpanOpens(processed')]_vars

\* C7: the reset at the end of two toggles and a reset has been scanned, and it
\* closed the two open elements.
C7_Witness ==
    /\ pc = "toHtml"
    /\ Len(text) = 3 /\ TogglesThenReset(text)
    /\ lastTok = "reset"
    /\ SpanOpens(processed) = 2 /\ SpanCloses(processed) = 2

\* C8: a reset byte met with depth > 0 is replaced by exactly depth closing
\* elements; met with depth 0 it is removed and nothing is emitted; both times
\* all attribute bits are cleared and depth becomes 0, so that a style toggle
\* that follows a reset opens an element.
C8_Reset ==
    [][/\ (ScanMeets(ResetCode) /\ depth >= 0) =>
              /\ IF depth > 0
                 THEN /\ pos' = pos + 7 * depth
                      /\ processed'
                             = Replace(processed, pos, 1, Mid(processed', pos, 7 * depth))
                      /\ \A k \in 0..(depth - 1) :
                            Mid(processed', pos + 7 * k, 7) = <<60, 47, 115, 112, 97, 110, 62>>
                 ELSE /\ pos' = pos
                      /\ processed' = Remove(processed, pos, 1)
              /\ state' = None
              /\ depth' = 0
       /\ (lastTok = "reset" /\ \E c \in {2, 19, 21, 22, 29, 31} : ScanMeets(c)) =>
              /\ depth' = depth + 1
              /\ SpanOpens(processed') = SpanOpens(processed) + 1
              /\ SpanCloses(processed') = SpanCloses(processed)]_vars

\* C8: the scan of a reset, a toggle and a reset is over: the first reset was
\* removed at depth 0, the toggle after it opened an element, and the second
\* reset closed it at depth 1.
C8_Witness ==
    /\ pc = "toHtml"
    /\ Len(text) = 3
    /\ text[1] = ResetCode /\ text[2] = BoldCode /\ text[3] = ResetCode
    /\ pos = Len(processed)
    /\ lastTok = "reset"
    /\ processed = ElementOf(Bold, spanFormat) \o <<60, 47, 115, 112, 97, 110, 62>>
    /\ depth = 0 /\ state = None

\* the value of a string of one or two digits
DigitsValue(w) ==
    IF Len(w) = 1 THEN w[1] - 48 ELSE 10 * (w[1] - 48) + (w[2] - 48)

\* the foreground of the digit group w
GroupFg(w) ==
    IF Len(w) >= 2 /\ IsDigit(w[2]) THEN DigitsValue(SubSeq(w, 1, 2))
    ELSE DigitsValue(SubSeq(w, 1, 1))

\* the background of the digit group w, -1 when it has none
GroupBg(w) ==
    LET a == IF Len(w) >= 2 /\ IsDigit(w[2]) THEN 2 ELSE 1
    IN  IF Len(w) > a THEN DigitsValue(SubSeq(w, a + 2, Len(w))) ELSE -1

\* palette.get(index, default)
Resolve(pal, index, default) == IF index \in DOMAIN pal THEN pal[index] ELSE default

\* the opening element of a color directive with foreground f and background
\* b (-1 for none)
ColorElement(f, b, fmt, pal) ==
    IF fmt = "SpanStyle"
    THEN IF b = -1
         THEN <<60, 115, 112, 97, 110, 32, 115, 116, 121, 108, 101, 61, 39, 99, 111, 108, 111, 114, 58, 32>> \o Resolve(pal, f, <<98, 108, 97, 99, 107>>) \o <<39, 62>>
         ELSE <<60, 115, 112, 97, 110, 32, 115, 116, 121, 108, 101, 61, 39, 99, 111, 108, 111, 114, 58, 32>> \o Resolve(pal, f, <<98, 108, 97, 99, 107>>)
              \o <<59, 32, 98, 97, 99, 107, 103, 114, 111, 117, 110, 100, 45, 99, 111, 108, 111, 114, 58, 32>> \o Resolve(pal, b, <<116, 114, 97, 110, 115, 112, 97, 114, 101, 110, 116>>) \o <<39, 62>>
    ELSE IF b = -1
         THEN <<60, 115, 112, 97, 110, 32, 99, 108, 97, 115, 115, 61, 39>> \o Resolve(pal, f, <<98, 108, 97, 99, 107>>) \o <<39, 62>>
         ELSE <<60, 115, 112, 97, 110, 32, 99, 108, 97, 115, 115, 61, 39>> \o Resolve(pal, f, <<98, 108, 97, 99, 107>>) \o <<32>>
              \o Resolve(pal, b, <<116, 114, 97, 110, 115, 112, 97, 114, 101, 110, 116>>) \o <<45, 98, 97, 99, 107, 103, 114, 111, 117, 110, 100, 39, 62>>

\* C9: a color marker followed by a digit is replaced, with its digit group, by
\* one opening element; depth goes up by one whether or not a color element is
\* open; the element carries the foreground (default "black") and, when a
\* background was parsed, the background (default "transparent"); the
\* attribute bits do not change.
C9_ColorDirective ==
    [][(ScanMeets(ColorCode) /\ DigitFollows) =>
          LET n == DigitGroupLen(processed, pos + 1)
              w == Mid(processed, pos + 1, n)
              el == ColorElement(GroupFg(w), GroupBg(w), spanFormat, palette)
          IN  /\ processed' = Replace(processed, pos, 1 + n, el)
              /\ pos' = pos + Len(el)
              /\ SpanOpens(el) = 1 /\ SpanCloses(el) = 0
              /\ depth' = depth + 1
              /\ fg' = GroupFg(w) /\ bg' = GroupBg(w)
              /\ state' = state]_vars

\* C9: a color directive with a background has been scanned while the element
\* of an earlier color directive was open, and two elements are open.
C9_Witness ==
    /\ pc = "toHtml"
    /\ text = <<ColorCode, 52, ColorCode, 49, 44, 50>>
    /\ lastTok = "color"
    /\ pos = Len(processed)
    /\ depth = 2 /\ fg = 1 /\ bg = 2
    /\ SpanOpens(processed) = 2 /\ SpanCloses(processed) = 0

\* C10: a color marker that no digit follows is replaced, alone, by one closing
\* element; depth goes down by one, the foreground and background indices are
\* unset (-1), and the attribute bits do not change.
C10_ColorMarker ==
    [][(ScanMeets(ColorCode) /\ ~DigitFollows) =>
          /\ processed' = Replace(processed, pos, 1, <<60, 47, 115, 112, 97, 110, 62>>)
          /\ pos' = pos + 7
          /\ depth' = depth - 1
          /\ fg' = -1 /\ bg' = -1
          /\ state' = state]_vars

\* C10: a color marker without digits has been scanned after a color
\* directive and a bold toggle: it closed one element, the colors are unset and
\* bold is still set.
C10_Witness ==
    /\ pc = "toHtml"
    /\ text = <<ColorCode, 52, BoldCode, ColorCode>>
    /\ lastTok = "marker"
    /\ depth = 1 /\ fg = -1 /\ bg = -1 /\ state = Bold
    /\ SpanOpens(processed) = 2 /\ SpanCloses(processed) = 1

\* C11 (as claimed): toHtml closes no element on its own at the end of the
\* input, so when the scan has ended with depth d > 0 the output holds d more
\* opening elements than closing elements.
C11_OpenAtEnd ==
    (HtmlDone /\ depth > 0) => SpanOpens(result) - SpanCloses(result) = depth

\* C19 (as claimed): during the scan of toHtml, depth equals the number of
\* opening elements emitted so far minus the number of closing elements
\* emitted so far.
C19_DepthCountsOpen ==
    pc = "toHtml" => depth = SpanOpens(processed) - SpanCloses(processed)

\* C12: toHtml leaves its scan only when the scan is over; it then calls
\* parseLinks, once, exactly when the potential-URL flag is set and the URL
\* pattern is not empty, and otherwise returns the output of the scan, which
\* holds no anchor element.
C12_LinkDetectionOnce ==
    [][/\ (pc = "toHtml" /\ pc' # "toHtml") => pos >= Len(processed)
       /\ (pc' = "parseLinks" /\ pc # "parseLinks") => pc = "toHtml"
       /\ (pc = "toHtml" /\ pos >= Len(processed)) =>
              IF potentialUrl /\ urlPattern # "empty"
              THEN /\ pc' = "parseLinks"
                   /\ linkRuns = 0 /\ linkRuns' = 1
                   /\ linkProcessed' = processed
              ELSE /\ pc' = "done"
                   /\ linkRuns' = 0
                   /\ result' = processed
                   /\ Count(result', <<60, 97, 32>>) = 0
       /\ linkRuns' <= 1]_vars

\* C12: toHtml has returned "www.ab" as it is for a formatter with an empty
\* URL pattern: the flag was set, and parseLinks was not called.
C12_Witness ==
    /\ HtmlDone
    /\ urlPattern = "empty"
    /\ text = <<119, 119, 119, 46, 97, 98>>
    /\ potentialUrl
    /\ linkRuns = 0
    /\ result = text

\* the scheme the claim puts before a match: none when the match has its own
\* (own), else "mailto:" for a match with '@', else "ftp://" for a match that
\* starts with "ftp." in any case of the letters, else "http://"
ClaimedScheme(href, own) ==
    IF own THEN <<>>
    ELSE IF \E i \in 1..Len(href) : href[i] = 64
    THEN <<109, 97, 105, 108, 116, 111, 58>>
    ELSE IF /\ Len(href) >= 4
            /\ href[1] \in {102, 70} /\ href[2] \in {116, 84}
            /\ href[3] \in {112, 80} /\ href[4] = 46
    THEN <<102, 116, 112, 58, 47, 47>>
    ELSE <<104, 116, 116, 112, 58, 47, 47>>

\* C13: every iteration of parseLinks replaces the match by an anchor whose
\* href is the claimed scheme followed by the percent-encoded match, and whose
\* visible text is the match unchanged; the '@' test comes before the "ftp."
\* test.
C13_SchemeSelection ==
    [][(pc = "parseLinks" /\ pc' = "parseLinks") =>
          LET idx == rxIndexIn(urlPattern, linkProcessed, linkPos)
              m == MatchAt(linkProcessed, idx)
              href == Mid(linkProcessed, idx, m.len)
              anchor == <<60, 97, 32, 104, 114, 101, 102, 61, 39>>
                            \o ClaimedScheme(href, m.scheme)
                            \o toPercentEncoding(href)
                            \o <<39, 62>> \o href \o <<60, 47, 97, 62>>
          IN  /\ linkProcessed' = Replace(linkProcessed, idx, m.len, anchor)
              /\ linkPos' = idx + Len(anchor)]_vars

\* C13: toHtml has returned for "ftp.aba@b.cd", a match that starts with
\* "ftp." and holds an '@': its anchor has the scheme "mailto:" and the match
\* as its text.
C13_Witness ==
    /\ HtmlDone
    /\ text = <<102, 116, 112, 46, 97, 98, 97, 64, 98, 46, 99, 100>>
    /\ result = <<60, 97, 32, 104, 114, 101, 102, 61, 39, 109, 97, 105, 108, 116, 111, 58>>
                    \o text \o <<39, 62>> \o text \o <<60, 47, 97, 62>>

\* C14 (as claimed): when the URL pattern of the formatter does not compile,
\* a toHtml call that comes to link detection reports an error to its caller
\* when it returns, and rewrites no link.
C14_PatternErrorReported ==
    [][(pc = "parseLinks" /\ pc' = "done" /\ urlPattern = "invalid") =>
          /\ error' # "none"
          /\ Count(result', <<60, 97, 32>>) = 0]_vars

\* C15: toHtml and toPlainText keep no state between calls. Every call of
\* toHtml starts at the first character with all attribute bits clear, depth
\* 0, the colors unset and the potential-URL flag false, and every call of
\* toPlainText starts at the first character of its text; no step of a call
\* changes urlPattern, spanFormat or the palette; and the same function called
\* again on the same text with the same configuration, whatever was called or
\* set in between, returns what it returned the first time.
C15_NoStateBetweenCalls ==
    [][/\ (pc = "idle" /\ pc' = "toHtml") =>
              /\ state' = None /\ depth' = 0
              /\ fg' = -1 /\ bg' = -1
              /\ potentialUrl' = FALSE
              /\ pos' = 0
       /\ (pc = "idle" /\ pc' = "toPlainText") =>
              /\ pos' = 0
              /\ processed' = text
       /\ (pc # "done" \/ pc' # "done") => config' = config
       /\ (pc # "done" /\ pc' = "done" /\ call' = 3 /\ op' = firstOp'
              /\ config' = firstConfig') => result' = first']_vars

\* C15: toHtml has returned for the second time for a reset and a bold
\* toggle, with the same result, after a toHtml call in between that ran link
\* detection and so left its flag set and its text behind.
C15_Witness ==
    /\ HtmlDone
    /\ call = 3
    /\ firstOp = "toHtml"
    /\ config = firstConfig
    /\ text = <<ResetCode, BoldCode>>
    /\ linkProcessed # <<>>
    /\ result = first
    /\ SpanOpens(result) = 1

\* the character at the 1-based index i of s belongs to the digit group of a
\* color directive
InDigitGroup(s, i) ==
    \E j \in 1..(i - 1) : s[j] = ColorCode /\ i - j <= DigitGroupLen(s, j)

\* the character at the 1-based index i of s is a character of the literal
\* text, and not a space
LiteralNonSpace(s, i) ==
    /\ s[i] \notin ControlCodes
    /\ ~InDigitGroup(s, i)
    /\ ~IsSpace(s[i])

\* the text has a '.', '/' or ':' with a non-space character of the literal
\* text directly before it and directly after it
HasUrlCharInLiteralText(s) ==
    \E i \in 2..(Len(s) - 1) :
        /\ s[i] \in {46, 47, 58}
        /\ LiteralNonSpace(s, i - 1)
        /\ LiteralNonSpace(s, i + 1)

\* C20 (as claimed): the potential-URL flag is set exactly when the scan has
\* met a '.', '/' or ':' with a non-space character of the literal text
\* directly before it and directly after it.
C20_LiteralNeighbours ==
    (pc = "toHtml" /\ pos >= Len(processed)) =>
        (potentialUrl <=> HasUrlCharInLiteralText(text))

\* the cursor of the scan is at a '.', '/' or ':' that is neither the first
\* nor the last character of the string being processed and has no space
\* before it or after it there
MeetsUrlChar ==
    /\ At(processed, pos) \in {46, 47, 58}
    /\ pos > 0 /\ ~IsSpace(At(processed, pos - 1))
    /\ pos + 1 < Len(processed) /\ ~IsSpace(At(processed, pos + 1))

\* every '.', '/' and ':' of the text is its first or its last character
UrlCharsOnlyAtEnds(s) == \A i \in 2..(Len(s) - 1) : s[i] \notin {46, 47, 58}

\* C20 (amended): the potential-URL flag starts false; an iteration of the
\* scan sets it exactly when it meets a '.', '/' or ':' that is neither the
\* first nor the last character of the string being processed and has no
\* space next to it there, where the neighbour before may be generated markup
\* and the neighbour after a control byte; once set it stays set until the
\* call returns; and a text whose '.', '/' and ':' are all at its first or
\* last position never sets it.
C20_PotentialUrlFlag ==
    [][/\ (pc = "idle" /\ pc' = "toHtml") => ~potentialUrl'
       /\ (pc = "toHtml" /\ pc' = "toHtml") =>
              (potentialUrl' <=> (potentialUrl \/ MeetsUrlChar))
       /\ (potentialUrl /\ pc \in {"toHtml", "parseLinks"}) => potentialUrl'
       /\ (op' = "toHtml" /\ UrlCharsOnlyAtEnds(text)) => ~potentialUrl']_vars

\* C20: the scan of "\x02.a" is over: the dot is the first character of the
\* literal text, the markup of the bold toggle stands before it, and the flag
\* is set.
C20_Witness ==
    /\ pc = "toHtml"
    /\ text = <<BoldCode, 46, 97>>
    /\ pos = Len(processed)
    /\ potentialUrl

-----------------------------------------------------------------------------
(* The claims about IrcUserModel. *)

\* after is before with one entry, the user, taken out and the other entries
\* in their order, or before itself when it does not hold the user
OneRemoved(before, after, user) ==
    IF \A i \in 1..Len(before) : before[i] # user THEN after = before
    ELSE \E i \in 1..Len(before) :
            /\ before[i] = user
            /\ after = SubSeq(before, 1, i - 1) \o SubSeq(before, i + 1, Len(before))

\* C16: while dynamicSort is false and sort() has not been called, the list
\* of users is in the order in which the users were delivered: addUser puts
\* the new user at the end, and removeUser keeps the order of the other
\* users.
C16_DeliveryOrder ==
    [][/\ (userOp'[1] = "addUser" /\ ~dynamicSort) =>
              userList' = Append(userList, userOp'[2])
       /\ userOp'[1] = "removeUser" => OneRemoved(userList, userList', userOp'[2])
       /\ ~sortUsed' => userList' = delivered']_vars

\* C16: "B" has been removed from the middle of a list that was never sorted,
\* and the users left are in the order of their delivery, "a", "+c", which is
\* not the order of lessThan: "+c" has a prefix and "a" has none.
C16_Witness ==
    /\ ~sortUsed
    /\ userOp = <<"removeUser", UserPool[1]>>
    /\ userList = <<UserPool[2], UserPool[3]>>
    /\ delivered = userList
    /\ lessThan(UserPool[3], UserPool[2], prefixes)

\* the list is in the order of lessThan, ascending, or descending with the
\* arguments of lessThan swapped: no user comes before, by that comparison, a
\* user that precedes it in the list
InSortOrder(list, order, pfx) ==
    \A i, j \in 1..Len(list) :
        i < j =>
            IF order = "AscendingOrder"
            THEN ~lessThan(list[j], list[i], pfx)
            ELSE ~lessThan(list[i], list[j], pfx)

\* C17 (as claimed): whenever dynamicSort is true, the list of users is in
\* the order of lessThan in the current sort order.
C17_DynamicSorted == dynamicSort => InSortOrder(userList, sortOrder, prefixes)

\* the user has a prefix and its first symbol is in the prefix list
Listed(u, pfx) == u.prefix # <<>> /\ \E i \in 1..Len(pfx) : pfx[i] = u.prefix[1]

\* the place of the first prefix symbol of a listed user in the prefix list
Place(u, pfx) ==
    CHOOSE i \in 1..Len(pfx) :
        pfx[i] = u.prefix[1] /\ \A j \in 1..(i - 1) : pfx[j] # u.prefix[1]

\* a letter in lower case
Folded(c) == IF c \in 65..90 THEN c + 32 ELSE c

\* the name n1 comes before the name n2 when the case of letters is ignored
NameBefore(n1, n2) ==
    \E k \in 1..(Len(n1) + 1) :
        /\ k <= Len(n2)
        /\ \A m \in 1..(k - 1) : Folded(n1[m]) = Folded(n2[m])
        /\ k = Len(n1) + 1 \/ Folded(n1[k]) < Folded(n2[k])

\* the order the claim describes
ClaimedLess(u1, u2, pfx) ==
    IF Listed(u1, pfx) /\ ~Listed(u2, pfx) THEN TRUE
    ELSE IF ~Listed(u1, pfx) /\ Listed(u2, pfx) THEN FALSE
    ELSE IF Listed(u1, pfx) /\ Listed(u2, pfx) /\ Place(u1, pfx) # Place(u2, pfx)
    THEN Place(u1, pfx) < Place(u2, pfx)
    ELSE NameBefore(u1.name, u2.name)

\* C18: lessThan ranks a user with a listed prefix before a user without
\* one, two users with listed prefixes at different places by the place, and
\* all others by their names without regard to case; and over the users it
\* is a strict weak ordering: irreflexive, asymmetric, transitive, and with
\* transitive incomparability.
C18_LessThan ==
    /\ userOp[1] = "lessThan" => lessResult = ClaimedLess(one, another, prefixes)
    /\ \A a, b, c \in AllUsers :
          /\ ~lessThan(a, a, prefixes)
          /\ lessThan(a, b, prefixes) => ~lessThan(b, a, prefixes)
          /\ (lessThan(a, b, prefixes) /\ lessThan(b, c, prefixes))
                 => lessThan(a, c, prefixes)
          /\ (/\ ~lessThan(a, b, prefixes) /\ ~lessThan(b, a, prefixes)
              /\ ~lessThan(b, c, prefixes) /\ ~lessThan(c, b, prefixes))
                 => (~lessThan(a, c, prefixes) /\ ~lessThan(c, a, prefixes))

\* C18: lessThan was called on "a" and "B", two users without a prefix, and
\* returned true: the names were compared without regard to case.
C18_Witness ==
    /\ userOp = <<"lessThan">>
    /\ one = UserPool[2]
    /\ another = UserPool[1]
    /\ lessResult = TRUE

-----------------------------------------------------------------------------
(* Further claims about IrcTextFormat. *)

\* the text w stands in s right after position i (counted from 0)
StandsAt(s, i, w) ==
    /\ i + Len(w) <= Len(s)
    /\ \A k \in 1..Len(w) : s[i + k] = w[k]

\* the text between the positions i and j of after is an anchor element
\* around the text between the positions i and i + n of before
IsAnchorFor(before, after, i, n, j) ==
    /\ StandsAt(after, i, <<60, 97, 32, 104, 114, 101, 102, 61, 39>>)
    /\ j - (n + 6) >= i + 9
    /\ StandsAt(after, j - (n + 6), <<39, 62>>)
    /\ \A k \in 1..n : after[j - (n + 4) + k] = before[i + k]
    /\ StandsAt(after, j - 4, <<60, 47, 97, 62>>)

\* C21: every iteration of parseLinks replaces one range of the text, which
\* starts at or after the cursor and is not empty, by an anchor element, and
\* puts the cursor on the first character after the anchor: the cursor grows,
\* the text before the range and the text after it stay as they were, and
\* the cursor, when it is not at the start, stands right after an anchor, so
\* that no match takes a character of an earlier anchor.
C21_ResumeAfterAnchor ==
    [][/\ (pc = "parseLinks" /\ pc' = "parseLinks") =>
           /\ linkPos' > linkPos
           /\ \E i \in linkPos..Len(linkProcessed), n \in 1..Len(linkProcessed) :
                 /\ i + n <= Len(linkProcessed)
                 /\ linkPos' <= Len(linkProcessed')
                 /\ SubSeq(linkProcessed', 1, i) = SubSeq(linkProcessed, 1, i)
                 /\ SubSeq(linkProcessed', linkPos' + 1, Len(linkProcessed'))
                      = SubSeq(linkProcessed, i + n + 1, Len(linkProcessed))
                 /\ IsAnchorFor(linkProcessed, linkProcessed', i, n, linkPos')
       /\ pc' = "parseLinks" =>
           \/ linkPos' = 0
           \/ linkPos' >= 4 /\ StandsAt(linkProcessed', linkPos' - 4, <<60, 47, 97, 62>>)]_vars

\* C21: toHtml has returned a text with two anchors, with the text between
\* the two matches, a space, left between them.
C21_Witness ==
    /\ HtmlDone
    /\ lastTok = "link"
    /\ Count(result, <<60, 97, 32>>) = 2
    /\ Count(result, <<60, 47, 97, 62, 32, 60, 97, 32>>) = 1

\* C22 (as claimed): in each of the three loops, every iteration makes the
\* number of characters after the cursor smaller and does not move the
\* cursor back, for every URL pattern.
C22_RemainingDecreases ==
    [][/\ (pc \in {"toPlainText", "toHtml"} /\ pc' = pc) =>
           /\ Len(processed') - pos' < Len(processed) - pos
           /\ pos' >= pos
       /\ (pc = "parseLinks" /\ pc' = "parseLinks") =>
           /\ Len(linkProcessed') - linkPos' < Len(linkProcessed) - linkPos
           /\ linkPos' >= linkPos]_vars

\* s from position p on, without its elements' tags: every stretch from a
\* '<' to the next '>' left out
RECURSIVE WithoutTags(_, _, _)
WithoutTags(s, p, inTag) ==
    IF p >= Len(s) THEN <<>>
    ELSE IF inTag THEN WithoutTags(s, p + 1, At(s, p) # 62)
    ELSE IF At(s, p) = 60 THEN WithoutTags(s, p + 1, TRUE)
    ELSE <<At(s, p)>> \o WithoutTags(s, p + 1, FALSE)

\* C23: for a text without '<' and a formatter with an empty URL pattern, what
\* toHtml returns, with the tags of its span elements taken out, is what
\* toPlainText returns for the same text.
C23_SameCharacters ==
    (HtmlDone /\ urlPattern = "empty" /\ ~Contains(text, 60)) =>
        WithoutTags(result, 0, FALSE) = toPlainText(text)

\* C23: toHtml has returned for a reset, a bold toggle and a letter, with
\* link detection off: the reset at depth 0 is gone, the toggle became a tag,
\* and the letter is all that toPlainText leaves of the text.
C23_Witness ==
    /\ HtmlDone
    /\ urlPattern = "empty"
    /\ text = <<ResetCode, BoldCode, 97>>
    /\ Len(result) > 1
    /\ WithoutTags(result, 0, FALSE) = <<97>>
    /\ toPlainText(text) = <<97>>

-----------------------------------------------------------------------------
(* Further claims about IrcUserModel. *)

\* the signals of IrcUserModel among the emitted ones, without those of
\* QAbstractItemModel
OwnSignals(emitted_) ==
    SelectSeq(emitted_, LAMBDA g : g.sig \in {"added", "removed", "namesChanged",
                                              "usersChanged", "countChanged",
                                              "channelChanged"})

\* the places of the signal sig among the emitted ones
PlacesOf(emitted_, sig) == {i \in 1..Len(emitted_) : emitted_[i].sig = sig}

\* C24: removeUser of a user that is not in the list changes nothing and emits
\* nothing; removeUser of a user in the list takes out that one entry, keeps
\* the order of the others, and emits removed(user), namesChanged,
\* usersChanged with the list after the removal and countChanged with its
\* length, in this order, each once; addUser emits added(user) once, after the
\* rows are inserted.
C24_RemoveAndAddSignals ==
    [][/\ userOp'[1] = "removeUser" =>
           IF ~InList(userList, userOp'[2])
           THEN /\ UNCHANGED <<userList, sortOrder, dynamicSort, registry>>
                /\ signals' = <<>>
           ELSE /\ Len(userList') = Len(userList) - 1
                /\ OneRemoved(userList, userList', userOp'[2])
                /\ Len(OwnSignals(signals')) = 4
                /\ OwnSignals(signals')[1].sig = "removed"
                /\ OwnSignals(signals')[1].payload = userOp'[2]
                /\ OwnSignals(signals')[2].sig = "namesChanged"
                /\ OwnSignals(signals')[3].sig = "usersChanged"
                /\ OwnSignals(signals')[3].payload = userList'
                /\ OwnSignals(signals')[4].sig = "countChanged"
                /\ OwnSignals(signals')[4].payload = Len(userList')
       /\ userOp'[1] = "addUser" =>
           /\ InList(userList', userOp'[2])
           /\ Cardinality(PlacesOf(signals', "added")) = 1
           /\ \A i \in PlacesOf(signals', "added") :
                 /\ signals'[i].payload = userOp'[2]
                 /\ \E j \in PlacesOf(signals', "rowsInserted") : j < i]_vars

\* C24: removeUser has taken "a" out of the middle of a list of three users,
\* and emitted removed(a) as the first of its own signals.
C24_Witness ==
    /\ userOp = <<"removeUser", UserPool[2]>>
    /\ userList = <<UserPool[1], UserPool[3]>>
    /\ Len(signals) = 6
    /\ signals[1].payload = 1
    /\ signals[3] = Signal("removed", UserPool[2])

\* how often the model stands in the userModels list of the channel c
Registrations(c) ==
    Cardinality({i \in 1..Len(userModels[c]) : userModels[c][i] = ModelId})

\* C25: the model stands in the userModels list of a channel exactly when it
\* is alive and that channel is its channel, and then once; a destroyed model
\* stands in no list; and setChannel with the channel the model already has
\* changes nothing and emits no channelChanged.
C25_RegisteredWithChannel ==
    /\ [](\A c \in Channels :
            Registrations(c) = IF life = "alive" /\ channel = c THEN 1 ELSE 0)
    /\ [][(userOp'[1] = "setChannel" /\ userOp'[2] = channel) =>
             /\ UNCHANGED <<userList, sortOrder, dynamicSort, registry>>
             /\ PlacesOf(signals', "channelChanged") = {}]_vars

\* C25: the model went from one channel to the other: it stands in the list
\* of c2 and no longer in the list of c1.
C25_Witness ==
    /\ userOp = <<"setChannel", "c2">>
    /\ channel = "c2"
    /\ userModels["c1"] = <<>>
    /\ userModels["c2"] = <<ModelId>>
    /\ PlacesOf(signals, "channelChanged") # {}

\* C26 (as claimed): count() is the number of the users of users(), and get(i)
\* gives a user exactly for the i from 0 up to count().
C26_CountMatchesUsers ==
    life = "alive" =>
        /\ count(channel, userList) = Len(users(userList))
        /\ \A i \in (0 - 1)..(MaxUsers + 1) :
              (get(userList, i) # <<>>) <=> (0 <= i /\ i < count(channel, userList))

=============================================================================
